---- MODULE Spec2Model ----
(***************************************************************************)
(* Model of src/code_knowledge_server.py: the element store (one JSON     *)
(* record per element id plus one metadata record) and the tool handlers  *)
(* that maintain the dependencies / dependents edges.                     *)
(*                                                                         *)
(* Every tool call runs to completion before the next one starts (the     *)
(* server is synchronous), so each handler is one action.  The handlers   *)
(* are pure operators from (store, arguments) to (store, returned value), *)
(* written statement by statement after the Python code; the actions      *)
(* apply them to the current store with arguments drawn from small sets.  *)
(*                                                                         *)
(* Nothing locks the directory: two servers started on the same working   *)
(* directory run their handlers at the same time.  SpecOverlap has the    *)
(* handlers of add_code_element and remove_element as sequences of file   *)
(* operations, one step each.                                             *)
(***************************************************************************)
EXTENDS Integers, Sequences, FiniteSets, TLC

VARIABLES
    elems,   \* ELEMENTS_DIR: element id -> record of <id>.json, or NoElem
    meta,    \* METADATA_FILE: [created_at, total_elements, last_updated]
    clock,   \* logical value of datetime.now()
    call,    \* the tool call being answered: its name and arguments, or NoCall
    result   \* the value the handler returned for it, on its way to the client

vars == <<elems, meta, clock, call, result>>

----------------------------------------------------------------------------
(* Bounds of the model *)

\* longest dependency list a client passes in one call
MaxLen == 2

\* the same, for the calls whose lists may also name the ghost id
MaxGhostLen == 1

\* the logical clock stops at this value
MaxClock == 2

\* longest dependency list in the calls between which time passes
MaxClockLen == 1

\* longest dependency list in the calls during which a file operation can fail
MaxFaultLen == 1

\* longest dependency list in the calls that build the graphs to render
MaxTreeLen == 2

\* largest max_depth a client passes to get_knowledge_tree_view
MaxDepth == 2

\* longest dependency list in the calls that build the chains to render
MaxChainLen == 1

\* longest dependency list in the calls that build the graphs to count
MaxStatsLen == 2

\* max_depth: int = 3, the default of get_knowledge_tree_view
DefaultMaxDepth == 3

(* Input sets *)

\* ids a client adds, edits, updates, removes
Ids == {"a", "b"}

\* an id that clients reference but never add
Ghost == "g"

\* every id that can occur in a dependency list, hence every file name the
\* store is asked for; a dependency on an id that has no record (not added
\* yet, removed, or never added) is dangling
Names == Ids \cup {Ghost}

\* the ids of the graphs to render
TreeIds == Ids \cup {"c"}

\* Python's None (source_file, line_range of a record; an omitted argument)
None == "<None>"

\* created_at = "" (the dataclass default): no timestamp yet
NoTime == 0

\* load_element's None: no <id>.json file
NoElem == [absent |-> TRUE]

RECURSIVE SeqsUpTo(_, _)
SeqsUpTo(S, n) ==
    IF n = 0 THEN {<<>>}
    ELSE LET shorter == SeqsUpTo(S, n - 1)
         IN shorter \cup {Append(s, x) : s \in {t \in shorter : Len(t) = n - 1}, x \in S}

\* the dependency lists a client passes: over the ids it also adds
DepLists == SeqsUpTo(Ids, MaxLen)

----------------------------------------------------------------------------
(* Python list primitives *)

\* x in s
InSeq(x, s) == \E i \in 1..Len(s) : s[i] = x

\* set(s)
Range(s) == {s[i] : i \in 1..Len(s)}

\* s.remove(x): drops the first occurrence of x (callers test `x in s` first)
ListRemove(s, x) ==
    LET i == CHOOSE j \in 1..Len(s) : s[j] = x /\ \A k \in 1..(j - 1) : s[k] # x
    IN SubSeq(s, 1, i - 1) \o SubSeq(s, i + 1, Len(s))

\* str.strip() on the text values of the model
Strip(s) ==
    CASE s = " "    -> ""
      [] s = " t2 " -> "t2"
      [] OTHER      -> s

\* `x or None`
OrNone(s) == IF s = "" THEN None ELSE s

----------------------------------------------------------------------------
(* Record store *)

\* the ids that have a record: the file f"{id}.json" is in ELEMENTS_DIR
Stored(els) == {i \in DOMAIN els : els[i] # NoElem}

\* load_element(element_id): None when ELEMENTS_DIR / f"{element_id}.json"
\* does not exist
load_element(els, element_id) ==
    IF element_id \in DOMAIN els THEN els[element_id] ELSE NoElem

\* element_file.stem of the file f"{element_id}.json": the name without its
\* suffix; the name ".json" begins with its only dot and has no suffix
stem(element_id) == IF element_id = "" THEN ".json" ELSE element_id

\* a variant of update_metadata that keeps a running count: one more element
\* at each call
update_metadata_incremental(els, md, now) ==
    [total_elements |-> md.total_elements + 1,
     last_updated   |-> now,
     created_at     |-> md.created_at]

\* update_metadata(): total_elements is recounted, created_at is kept
update_metadata(els, md, now) ==
    [total_elements |-> Cardinality(Stored(els)),
     last_updated   |-> now,
     created_at     |-> md.created_at]

\* A store st, as the handlers pass it along, is [elems, meta, points]: the
\* element records, the metadata record, and the contents (Snapshot) the
\* directory had each time the handler reached a file operation since it
\* started.  A file operation that raises leaves the directory as it was when
\* the operation was reached.
Snapshot(st) == [elems |-> st.elems, meta |-> st.meta]

\* the handler reaches a file operation (exists, open, glob, unlink)
io_point(st) == [st EXCEPT !.points = @ \cup {Snapshot(st)}]

\* a variant of save_element that assigns created_at at every save
save_element_restamping(st, element, now) ==
    LET stamped == [element EXCEPT !.updated_at = now, !.created_at = now]
        els     == [st.elems EXCEPT ![element.id] = stamped]
        written == io_point([io_point(st) EXCEPT !.elems = els])
    IN [written EXCEPT !.meta = update_metadata(els, st.meta, now)]

\* save_element(element): the element file is written, then update_metadata()
\* reads the directory and the metadata file and writes the metadata file
save_element(st, element, now) ==
    LET stamped == [element EXCEPT
                       !.updated_at = now,
                       !.created_at = IF @ = NoTime THEN now ELSE @]
        els     == [st.elems EXCEPT ![element.id] = stamped]
        written == io_point([io_point(st) EXCEPT !.elems = els])
    IN [written EXCEPT !.meta = update_metadata(els, st.meta, now)]

\* CodeElement(...) as add_code_element constructs it
CodeElement(id, type, code, description, dependencies, source_file, line_range) ==
    [id           |-> id,
     type         |-> type,
     code         |-> code,
     description  |-> description,
     dependencies |-> dependencies,
     dependents   |-> <<>>,
     source_file  |-> source_file,
     line_range   |-> line_range,
     created_at   |-> NoTime,
     updated_at   |-> NoTime]

----------------------------------------------------------------------------
(* Arguments *)

\* a `dependencies` argument: None, a bare string, or a list
DepNone    == [kind |-> "none", s |-> "", l |-> <<>>]
DepStr(x)  == [kind |-> "str",  s |-> x,  l |-> <<>>]
DepList(l) == [kind |-> "list", s |-> "", l |-> l]

\* add_code_element: `dependencies or []`, then a bare string becomes [string]
add_deps_list(dependencies) ==
    CASE dependencies.kind = "none" -> <<>>
      [] dependencies.kind = "str"  -> IF dependencies.s = "" THEN <<>> ELSE <<dependencies.s>>
      [] OTHER                      -> dependencies.l

\* edit_dependencies, update_code_element: a bare string becomes [string]
as_list(dependencies) ==
    IF dependencies.kind = "str" THEN <<dependencies.s>> ELSE dependencies.l

----------------------------------------------------------------------------
(* The loops that maintain the dependents lists *)

\* a variant of link_dependents in which existing_dependencies.append(dep_id)
\* is indented one level too deep: it runs only when the dependents list changed
RECURSIVE link_dependents_indented(_, _, _, _)
link_dependents_indented(acc, deps, element_id, now) ==
    IF deps = <<>> THEN acc
    ELSE
      LET dep_id      == Head(deps)
          dep_element == load_element(acc.st.elems, dep_id)
      IN IF dep_element # NoElem
         THEN IF ~InSeq(element_id, dep_element.dependents)
              THEN link_dependents_indented(
                       [st       |-> save_element(acc.st,
                                        [dep_element EXCEPT !.dependents = Append(@, element_id)],
                                        now),
                        existing |-> Append(acc.existing, dep_id),
                        missing  |-> acc.missing],
                       Tail(deps), element_id, now)
              ELSE link_dependents_indented(acc, Tail(deps), element_id, now)
         ELSE link_dependents_indented([acc EXCEPT !.missing = Append(@, dep_id)],
                                       Tail(deps), element_id, now)

\* a variant of link_dependents without the `element_id not in
\* dep_element.dependents` test: it appends at every turn
RECURSIVE link_dependents_unconditional(_, _, _, _)
link_dependents_unconditional(acc, deps, element_id, now) ==
    IF deps = <<>> THEN acc
    ELSE
      LET dep_id      == Head(deps)
          st1         == io_point(acc.st)
          dep_element == load_element(st1.elems, dep_id)
      IN IF dep_element # NoElem
         THEN link_dependents_unconditional(
                  [st       |-> save_element(st1,
                                   [dep_element EXCEPT !.dependents = Append(@, element_id)],
                                   now),
                   existing |-> Append(acc.existing, dep_id),
                   missing  |-> acc.missing],
                  Tail(deps), element_id, now)
         ELSE link_dependents_unconditional(
                  [st       |-> st1,
                   existing |-> acc.existing,
                   missing  |-> Append(acc.missing, dep_id)],
                  Tail(deps), element_id, now)

\* "Add this element to the dependency's dependents list": the loop over the
\* new dependency list, the same statements in add_code_element (230-239),
\* edit_dependencies (331-339) and update_code_element (682-690).
\* acc = [st, existing, missing].
RECURSIVE link_dependents(_, _, _, _)
link_dependents(acc, deps, element_id, now) ==
    IF deps = <<>> THEN acc
    ELSE
      LET dep_id      == Head(deps)
          st1         == io_point(acc.st)
          dep_element == load_element(st1.elems, dep_id)
      IN IF dep_element # NoElem
         THEN LET st2 == IF ~InSeq(element_id, dep_element.dependents)
                         THEN save_element(st1,
                                  [dep_element EXCEPT !.dependents = Append(@, element_id)],
                                  now)
                         ELSE st1
              IN link_dependents([st       |-> st2,
                                  existing |-> Append(acc.existing, dep_id),
                                  missing  |-> acc.missing],
                                 Tail(deps), element_id, now)
         ELSE link_dependents([st       |-> st1,
                               existing |-> acc.existing,
                               missing  |-> Append(acc.missing, dep_id)],
                              Tail(deps), element_id, now)

\* "Remove this element from old dependencies' dependents": the loop over the
\* original dependency list, the same statements in edit_dependencies
\* (320-325) and update_code_element (674-679).
RECURSIVE unlink_dependents(_, _, _, _, _)
unlink_dependents(st, original_deps, new_deps, element_id, now) ==
    IF original_deps = <<>> THEN st
    ELSE
      LET old_dep         == Head(original_deps)
          \* load_element(old_dep) runs only `if old_dep not in new_deps`
          st1             == IF ~InSeq(old_dep, new_deps) THEN io_point(st) ELSE st
          old_dep_element == load_element(st.elems, old_dep)
          st2 == IF /\ ~InSeq(old_dep, new_deps)
                    /\ old_dep_element # NoElem
                    /\ InSeq(element_id, old_dep_element.dependents)
                 THEN save_element(st1,
                          [old_dep_element EXCEPT !.dependents = ListRemove(@, element_id)],
                          now)
                 ELSE st1
      IN unlink_dependents(st2, Tail(original_deps), new_deps, element_id, now)

----------------------------------------------------------------------------
(* add_code_element *)

\* add_code_element once the id is known to be new: "Process dependencies",
\* "Create new element", "Save element", "Update dependents in referenced
\* elements and check for missing dependencies"
create_element(st, now, element_id, element_type, code, description, dependencies, source_file, line_range) ==
    LET deps_list == add_deps_list(dependencies)
        element   == CodeElement(element_id, element_type, Strip(code), description,
                                 deps_list, OrNone(source_file), OrNone(line_range))
        st1       == save_element(st, element, now)
        linked    == link_dependents([st |-> st1, existing |-> <<>>, missing |-> <<>>],
                                     deps_list, element_id, now)
    IN [st  |-> linked.st,
        ret |-> [success |-> TRUE,
                 message |-> "Added",
                 element |-> [id           |-> element_id,
                              type         |-> element_type,
                              description  |-> description,
                              dependencies |-> deps_list,
                              created_at   |-> now],
                 dependency_analysis |->
                     [total_dependencies    |-> Len(deps_list),
                      existing_dependencies |-> linked.existing,
                      missing_dependencies  |-> linked.missing,
                      missing_count         |-> Len(linked.missing)]]]

\* a variant of add_code_element without the "Check if element already
\* exists" test: it overwrites
add_code_element_upsert(st, now, element_id, element_type, code, description, dependencies, source_file, line_range) ==
    create_element(st, now, element_id, element_type, code, description,
                   dependencies, source_file, line_range)

add_code_element(st, now, element_id, element_type, code, description, dependencies, source_file, line_range) ==
    LET existing == load_element(st.elems, element_id) IN
    IF existing # NoElem
    THEN [st  |-> st,
          ret |-> [success |-> FALSE,
                   message |-> "AlreadyExists",
                   existing_element |-> [id          |-> existing.id,
                                         type        |-> existing.type,
                                         description |-> existing.description]]]
    ELSE create_element(st, now, element_id, element_type, code, description,
                        dependencies, source_file, line_range)

----------------------------------------------------------------------------
(* edit_dependencies *)

\* a variant of add_operation without the `dep not in element.dependencies`
\* test: it appends every id of the input
add_operation_unchecked(element_dependencies, dependencies) ==
    element_dependencies \o dependencies

\* operation == "add": append each id of the input that is not yet in the list
RECURSIVE add_operation(_, _)
add_operation(element_dependencies, dependencies) ==
    IF dependencies = <<>> THEN element_dependencies
    ELSE LET dep == Head(dependencies)
         IN add_operation(IF ~InSeq(dep, element_dependencies)
                          THEN Append(element_dependencies, dep)
                          ELSE element_dependencies,
                          Tail(dependencies))

\* operation == "remove": for each id of the input that is in the list,
\* list.remove it once
RECURSIVE remove_operation(_, _)
remove_operation(element_dependencies, dependencies) ==
    IF dependencies = <<>> THEN element_dependencies
    ELSE LET dep == Head(dependencies)
         IN remove_operation(IF InSeq(dep, element_dependencies)
                             THEN ListRemove(element_dependencies, dep)
                             ELSE element_dependencies,
                             Tail(dependencies))

\* the three operations of edit_dependencies
Operations == {"replace", "add", "remove"}

\* a variant of edit_dependencies whose last branch is a plain `else`: an
\* operation that is neither "add" nor "remove" is carried out as "replace"
edit_dependencies_lenient(st, now, element_id, dependencies_arg, operation) ==
    LET element == load_element(st.elems, element_id) IN
    IF element = NoElem
    THEN [st |-> st, ret |-> [success |-> FALSE, message |-> "NotFound"]]
    ELSE
      LET dependencies  == as_list(dependencies_arg)
          original_deps == element.dependencies
          new_deps ==
              CASE operation = "add"    -> add_operation(element.dependencies, dependencies)
                [] operation = "remove" -> remove_operation(element.dependencies, dependencies)
                [] OTHER                -> dependencies
          st1      == save_element(st, [element EXCEPT !.dependencies = new_deps], now)
          st2      == unlink_dependents(st1, original_deps, new_deps, element_id, now)
          linked   == link_dependents([st |-> st2, existing |-> <<>>, missing |-> <<>>],
                                      new_deps, element_id, now)
      IN [st  |-> linked.st,
          ret |-> [success |-> TRUE,
                   message |-> "Edited",
                   element |-> [id          |-> element.id,
                                type        |-> element.type,
                                description |-> element.description],
                   dependency_changes |->
                       [operation             |-> operation,
                        original_dependencies |-> original_deps,
                        new_dependencies      |-> new_deps,
                        existing_dependencies |-> linked.existing,
                        missing_dependencies  |-> linked.missing,
                        missing_count         |-> Len(linked.missing)]]]

edit_dependencies(st, now, element_id, dependencies_arg, operation) ==
    LET element == load_element(st.elems, element_id) IN
    IF element = NoElem
    THEN [st |-> st, ret |-> [success |-> FALSE, message |-> "NotFound"]]
    ELSE
      LET dependencies  == as_list(dependencies_arg)
          original_deps == element.dependencies
      IN IF operation \notin Operations
         THEN [st |-> st, ret |-> [success |-> FALSE, message |-> "InvalidOperation"]]
         ELSE
           LET new_deps ==
                   CASE operation = "replace" -> dependencies
                     [] operation = "add"     -> add_operation(element.dependencies, dependencies)
                     [] operation = "remove"  -> remove_operation(element.dependencies, dependencies)
               st1      == save_element(st, [element EXCEPT !.dependencies = new_deps], now)
               st2      == unlink_dependents(st1, original_deps, new_deps, element_id, now)
               linked   == link_dependents([st |-> st2, existing |-> <<>>, missing |-> <<>>],
                                           new_deps, element_id, now)
           IN [st  |-> linked.st,
               ret |-> [success |-> TRUE,
                        message |-> "Edited",
                        element |-> [id          |-> element.id,
                                     type        |-> element.type,
                                     description |-> element.description],
                        dependency_changes |->
                            [operation             |-> operation,
                             original_dependencies |-> original_deps,
                             new_dependencies      |-> new_deps,
                             existing_dependencies |-> linked.existing,
                             missing_dependencies  |-> linked.missing,
                             missing_count         |-> Len(linked.missing)]]]

----------------------------------------------------------------------------
(* update_code_element *)

\* a variant of update_text_fields that assigns description and line_range
\* whatever was passed: an omitted argument clears the field
update_text_fields_clearing(element, code, description, source_file, line_range) ==
    [element EXCEPT
        !.code        = IF Strip(code) # "" THEN Strip(code) ELSE @,
        !.description = description,
        !.source_file = IF Strip(source_file) # "" THEN source_file ELSE @,
        !.line_range  = line_range]

\* "Update only provided fields": the four text arguments
update_text_fields(element, code, description, source_file, line_range) ==
    [element EXCEPT
        !.code        = IF Strip(code) # "" THEN Strip(code) ELSE @,
        !.description = IF Strip(description) # "" THEN description ELSE @,
        !.source_file = IF Strip(source_file) # "" THEN source_file ELSE @,
        !.line_range  = IF Strip(line_range) # "" THEN line_range ELSE @]

\* updated_fields, in the order the handler appends them
updated_fields_of(code, description, source_file, line_range, dependencies_arg) ==
       (IF Strip(code) # "" THEN <<"code">> ELSE <<>>)
    \o (IF Strip(description) # "" THEN <<"description">> ELSE <<>>)
    \o (IF Strip(source_file) # "" THEN <<"source_file">> ELSE <<>>)
    \o (IF Strip(line_range) # "" THEN <<"line_range">> ELSE <<>>)
    \o (IF dependencies_arg.kind # "none" THEN <<"dependencies">> ELSE <<>>)

update_code_element(st, now, element_id, code, description, dependencies_arg, source_file, line_range) ==
    LET loaded == load_element(st.elems, element_id) IN
    IF loaded = NoElem
    THEN [st |-> st, ret |-> [success |-> FALSE, message |-> "NotFound"]]
    ELSE
      LET updated_fields == updated_fields_of(code, description, source_file, line_range,
                                              dependencies_arg)
          original_deps  == loaded.dependencies
          with_text      == update_text_fields(loaded, code, description, source_file, line_range)
          dependencies_changed == dependencies_arg.kind # "none"
          dependencies   == as_list(dependencies_arg)
          \* the handler's own copy of the element: the record loaded at the
          \* start, with the new fields; its dependents are those loaded
          element        == IF dependencies_changed
                            THEN [with_text EXCEPT !.dependencies = dependencies]
                            ELSE with_text
          st1            == IF dependencies_changed
                            THEN unlink_dependents(st, original_deps, dependencies,
                                                   element_id, now)
                            ELSE st
          linked         == IF dependencies_changed
                            THEN link_dependents([st |-> st1, existing |-> <<>>,
                                                  missing |-> <<>>],
                                                 dependencies, element_id, now)
                            ELSE [st |-> st1, existing |-> <<>>, missing |-> <<>>]
      IN IF updated_fields = <<>>
         THEN [st |-> linked.st, ret |-> [success |-> FALSE, message |-> "NoFields"]]
         ELSE [st  |-> save_element(linked.st, element, now),
               ret |-> [success |-> TRUE,
                        message |-> "Updated",
                        updated_fields |-> updated_fields,
                        element |-> [id           |-> element.id,
                                     type         |-> element.type,
                                     description  |-> element.description,
                                     dependencies |-> element.dependencies,
                                     updated_at   |-> now],
                        dependencies_changed |-> dependencies_changed,
                        dependency_analysis |->
                            [original_dependencies |-> original_deps,
                             new_dependencies      |-> element.dependencies,
                             existing_dependencies |-> linked.existing,
                             missing_dependencies  |-> linked.missing,
                             missing_count         |-> Len(linked.missing)]]]

----------------------------------------------------------------------------
(* get_all_elements, remove_element *)

\* a set as a list, in one fixed order: the order of ELEMENTS_DIR.glob
RECURSIVE SeqOfSet(_)
SeqOfSet(S) ==
    IF S = {} THEN <<>>
    ELSE LET x == CHOOSE y \in S : TRUE
         IN <<x>> \o SeqOfSet(S \ {x})

\* get_all_elements(): for each file of the glob, load_element of its stem;
\* the records that were found, in glob order
get_all_elements(els) ==
    LET files    == SeqOfSet(Stored(els))
        elements == [i \in 1..Len(files) |-> load_element(els, stem(files[i]))]
    IN SelectSeq(elements, LAMBDA element : element # NoElem)

\* "Clean up references in other elements": the scan of remove_element.
\* acc = [st, updated_elements]; all_elements is the list loaded before the scan.
RECURSIVE scrub_references(_, _, _, _)
scrub_references(acc, all_elements, element_id, now) ==
    IF all_elements = <<>> THEN acc
    ELSE
      LET other_element == Head(all_elements) IN
      IF other_element.id = element_id
      THEN scrub_references(acc, Tail(all_elements), element_id, now)
      ELSE
        LET in_deps  == InSeq(element_id, other_element.dependencies)
            other1   == IF in_deps
                        THEN [other_element EXCEPT !.dependencies = ListRemove(@, element_id)]
                        ELSE other_element
            st1      == IF in_deps THEN save_element(acc.st, other1, now) ELSE acc.st
            upd1     == IF in_deps
                        THEN Append(acc.updated_elements, <<other_element.id, "dependencies">>)
                        ELSE acc.updated_elements
            in_dpts  == InSeq(element_id, other1.dependents)
            other2   == IF in_dpts
                        THEN [other1 EXCEPT !.dependents = ListRemove(@, element_id)]
                        ELSE other1
            st2      == IF in_dpts THEN save_element(st1, other2, now) ELSE st1
            upd2     == IF in_dpts
                        THEN Append(upd1, <<other_element.id, "dependents">>)
                        ELSE upd1
        IN scrub_references([st |-> st2, updated_elements |-> upd2],
                            Tail(all_elements), element_id, now)

\* element_file.unlink(), then update_metadata()
unlink_element(st, element_id, now) ==
    LET els      == [st.elems EXCEPT ![element_id] = NoElem]
        unlinked == io_point([io_point(st) EXCEPT !.elems = els])
    IN [unlinked EXCEPT !.meta = update_metadata(els, st.meta, now)]

remove_element(st, now, element_id) ==
    LET element == load_element(st.elems, element_id) IN
    IF element = NoElem
    THEN [st |-> st, ret |-> [success |-> FALSE, message |-> "NotFound"]]
    ELSE
      LET scrubbed == scrub_references([st |-> st, updated_elements |-> <<>>],
                                       get_all_elements(st.elems), element_id, now)
      IN [st  |-> unlink_element(scrubbed.st, element_id, now),
          ret |-> [success |-> TRUE,
                   message |-> "Removed",
                   cleaned_references   |-> scrubbed.updated_elements,
                   dependencies_removed |-> element.dependencies,
                   dependents_updated   |-> element.dependents]]

----------------------------------------------------------------------------
(* get_element, find_missing_dependencies *)

get_element(els, element_id) ==
    LET element == load_element(els, element_id) IN
    IF element = NoElem
    THEN [success |-> FALSE, message |-> "NotFound"]
    ELSE [success |-> TRUE, element |-> element]

\* the empty dict
EmptyDict == <<>>

\* a variant of missing_of_element that assigns missing_deps[dep_id] = [entry]
\* instead of appending: only the last referencer is kept
RECURSIVE missing_of_element_overwriting(_, _, _, _)
missing_of_element_overwriting(missing_deps, element, deps, all_element_ids) ==
    IF deps = <<>> THEN missing_deps
    ELSE
      LET dep_id == Head(deps)
          entry  == [referencing_element |-> element.id,
                     element_type        |-> element.type,
                     description         |-> element.description]
          next   == IF dep_id \notin all_element_ids
                    THEN [d \in DOMAIN missing_deps \cup {dep_id} |->
                             IF d = dep_id THEN <<entry>> ELSE missing_deps[d]]
                    ELSE missing_deps
      IN missing_of_element_overwriting(next, element, Tail(deps), all_element_ids)

\* the inner loop of find_missing_dependencies over one element's dependencies
RECURSIVE missing_of_element(_, _, _, _)
missing_of_element(missing_deps, element, deps, all_element_ids) ==
    IF deps = <<>> THEN missing_deps
    ELSE
      LET dep_id == Head(deps)
          entry  == [referencing_element |-> element.id,
                     element_type        |-> element.type,
                     description         |-> element.description]
          next   == IF dep_id \notin all_element_ids
                    THEN IF dep_id \in DOMAIN missing_deps
                         THEN [missing_deps EXCEPT ![dep_id] = Append(@, entry)]
                         ELSE [d \in DOMAIN missing_deps \cup {dep_id} |->
                                  IF d = dep_id THEN <<entry>> ELSE missing_deps[d]]
                    ELSE missing_deps
      IN missing_of_element(next, element, Tail(deps), all_element_ids)

\* the outer loop over elements_to_check
RECURSIVE missing_of_elements(_, _, _)
missing_of_elements(missing_deps, elements_to_check, all_element_ids) ==
    IF elements_to_check = <<>> THEN missing_deps
    ELSE LET element == Head(elements_to_check)
         IN missing_of_elements(
                missing_of_element(missing_deps, element, element.dependencies,
                                   all_element_ids),
                Tail(elements_to_check), all_element_ids)

\* find_missing_dependencies(element_id); element_id = "" checks every element
find_missing_dependencies(els, element_id) ==
    IF element_id # "" /\ load_element(els, element_id) = NoElem
    THEN [success |-> FALSE, message |-> "NotFound"]
    ELSE
      LET elements_to_check == IF element_id # ""
                               THEN <<load_element(els, element_id)>>
                               ELSE get_all_elements(els)
          all_element_ids   == {get_all_elements(els)[i].id :
                                    i \in 1..Len(get_all_elements(els))}
          missing_deps      == missing_of_elements(EmptyDict, elements_to_check,
                                                   all_element_ids)
      IN [success              |-> TRUE,
          missing_dependencies |-> missing_deps,
          total_missing        |-> Cardinality(DOMAIN missing_deps),
          checked_elements     |-> Len(elements_to_check)]

----------------------------------------------------------------------------
(* Numbers and texts of the reports *)

\* round(p / q, d) for q > 0, as the integer number of 10^-d units: the nearest
\* integer to p * 10^d / q, an exact tie going to the even one.  Callers pass
\* p already multiplied by 10^d.
RoundDiv(p, q) ==
    LET floor == p \div q
        twice == 2 * (p - floor * q)
    IN CASE twice < q -> floor
         [] twice > q -> floor + 1
         [] OTHER     -> IF floor % 2 = 0 THEN floor ELSE floor + 1

\* max(x, y)
Max(x, y) == IF x >= y THEN x ELSE y

\* sum of f[i] over the list f of numbers
RECURSIVE Sum(_)
Sum(f) == IF f = <<>> THEN 0 ELSE Head(f) + Sum(Tail(f))

\* largest member of the list f of naturals, 0 for the empty list
RECURSIVE MaxOf(_)
MaxOf(f) == IF f = <<>> THEN 0 ELSE Max(Head(f), MaxOf(Tail(f)))

\* A text is the list of its pieces; a line of a tree is one piece (a record)
\* and the empty string has none.
EmptyText == <<>>
Newline == [newline |-> TRUE]

\* "\n".join(lines), each line being a text
RECURSIVE Join(_)
Join(lines) ==
    CASE lines = <<>>    -> EmptyText
      [] Len(lines) = 1  -> lines[1]
      [] OTHER           -> Head(lines) \o <<Newline>> \o Join(Tail(lines))

----------------------------------------------------------------------------
(* get_knowledge_tree_view *)

\* "  " * depth + f"├── {element_id} [MISSING]"
MissingLine(depth, element_id) ==
    <<[indent |-> depth, prefix |-> TRUE, id |-> element_id, label |-> "MISSING",
       description |-> ""]>>

\* "  " * depth + f"{prefix}{element.id} [{element.type}] - {element.description}"
ElementLine(depth, element) ==
    <<[indent |-> depth, prefix |-> depth > 0, id |-> element.id, label |-> element.type,
       description |-> element.description]>>

\* a variant of build_tree_recursive without the `element_id in visited` test:
\* only max_depth stops the descent
RECURSIVE build_tree_unguarded(_, _, _, _, _)
RECURSIVE build_tree_unguarded_dependencies(_, _, _, _, _)
build_tree_unguarded(all_elements, max_depth, element_id, depth, visited) ==
    IF depth > max_depth THEN <<>>
    ELSE
      LET element == all_elements[element_id]
      IN IF element = NoElem
         THEN <<MissingLine(depth, element_id)>>
         ELSE <<ElementLine(depth, element)>>
              \o build_tree_unguarded_dependencies(all_elements, max_depth,
                                                   element.dependencies, depth, visited)

build_tree_unguarded_dependencies(all_elements, max_depth, dependencies, depth, visited) ==
    IF dependencies = <<>> THEN <<>>
    ELSE build_tree_unguarded(all_elements, max_depth, Head(dependencies), depth + 1, visited)
         \o build_tree_unguarded_dependencies(all_elements, max_depth, Tail(dependencies),
                                              depth, visited)

\* a variant of build_tree_recursive with `depth >= max_depth`: the nodes at
\* depth max_depth are not rendered
RECURSIVE build_tree_exclusive(_, _, _, _, _)
RECURSIVE build_tree_exclusive_dependencies(_, _, _, _, _)
build_tree_exclusive(all_elements, max_depth, element_id, depth, visited) ==
    IF depth >= max_depth \/ element_id \in visited THEN <<>>
    ELSE
      LET visited1 == visited \cup {element_id}
          element  == all_elements[element_id]
      IN IF element = NoElem
         THEN <<MissingLine(depth, element_id)>>
         ELSE <<ElementLine(depth, element)>>
              \o build_tree_exclusive_dependencies(all_elements, max_depth,
                                                   element.dependencies, depth, visited1)

build_tree_exclusive_dependencies(all_elements, max_depth, dependencies, depth, visited) ==
    IF dependencies = <<>> THEN <<>>
    ELSE build_tree_exclusive(all_elements, max_depth, Head(dependencies), depth + 1, visited)
         \o build_tree_exclusive_dependencies(all_elements, max_depth, Tail(dependencies),
                                              depth, visited)

\* a variant of build_tree_recursive that passes `visited` itself instead of
\* visited.copy(): one set is shared by the whole traversal.  The value of
\* build_tree_shared is [lines, visited].
RECURSIVE build_tree_shared(_, _, _, _, _)
RECURSIVE build_tree_shared_dependencies(_, _, _, _, _)
build_tree_shared(all_elements, max_depth, element_id, depth, visited) ==
    IF depth > max_depth \/ element_id \in visited THEN [lines |-> <<>>, visited |-> visited]
    ELSE
      LET visited1 == visited \cup {element_id}
          element  == all_elements[element_id]
      IN IF element = NoElem
         THEN [lines |-> <<MissingLine(depth, element_id)>>, visited |-> visited1]
         ELSE LET below == build_tree_shared_dependencies(all_elements, max_depth,
                               element.dependencies, depth, visited1)
              IN [lines   |-> <<ElementLine(depth, element)>> \o below.lines,
                  visited |-> below.visited]

build_tree_shared_dependencies(all_elements, max_depth, dependencies, depth, visited) ==
    IF dependencies = <<>> THEN [lines |-> <<>>, visited |-> visited]
    ELSE LET first == build_tree_shared(all_elements, max_depth, Head(dependencies),
                                        depth + 1, visited)
             rest  == build_tree_shared_dependencies(all_elements, max_depth,
                                                     Tail(dependencies), depth, first.visited)
         IN [lines |-> first.lines \o rest.lines, visited |-> rest.visited]

build_tree_shared_visited(all_elements, max_depth, element_id, depth, visited) ==
    build_tree_shared(all_elements, max_depth, element_id, depth, visited).lines

\* build_tree_recursive(element_id, depth, visited) and its loop over
\* element.dependencies; all_elements and max_depth are the variables of the
\* enclosing handler.  The value is the list of lines.
RECURSIVE build_tree_recursive(_, _, _, _, _)
RECURSIVE build_tree_dependencies(_, _, _, _, _)
build_tree_recursive(all_elements, max_depth, element_id, depth, visited) ==
    IF depth > max_depth \/ element_id \in visited THEN <<>>
    ELSE
      LET visited1 == visited \cup {element_id}
          element  == all_elements[element_id]
      IN IF element = NoElem
         THEN <<MissingLine(depth, element_id)>>
         ELSE <<ElementLine(depth, element)>>
              \o build_tree_dependencies(all_elements, max_depth, element.dependencies,
                                         depth, visited1)

\* for dep_id in element.dependencies:
\*     lines.extend(build_tree_recursive(dep_id, depth + 1, visited.copy()))
build_tree_dependencies(all_elements, max_depth, dependencies, depth, visited) ==
    IF dependencies = <<>> THEN <<>>
    ELSE build_tree_recursive(all_elements, max_depth, Head(dependencies), depth + 1, visited)
         \o build_tree_dependencies(all_elements, max_depth, Tail(dependencies), depth, visited)

\* for element in top_level: the tree of element.id, then an empty line
RECURSIVE build_top_level_trees(_, _, _)
build_top_level_trees(all_elements, max_depth, top_level) ==
    IF top_level = <<>> THEN <<>>
    ELSE build_tree_recursive(all_elements, max_depth, Head(top_level).id, 0, {})
         \o <<EmptyText>>
         \o build_top_level_trees(all_elements, max_depth, Tail(top_level))

\* stats["element_types"]: element type -> number of elements of that type
element_types_of(elements) ==
    [t \in {elements[i].type : i \in 1..Len(elements)} |->
        Cardinality({i \in 1..Len(elements) : elements[i].type = t})]

\* a variant of tree_lines_of without the `if not top_level` branch: when every
\* element has a dependent, no tree is rendered
tree_lines_without_fallback(els, root_element_id, max_depth) ==
    IF root_element_id # ""
    THEN build_tree_recursive(els, max_depth, root_element_id, 0, {})
    ELSE build_top_level_trees(els, max_depth,
             SelectSeq(get_all_elements(els), LAMBDA elem : elem.dependents = <<>>))

\* the lines get_knowledge_tree_view joins, on a store that has elements and,
\* when a root is given, has that root
tree_lines_of(els, root_element_id, max_depth) ==
    IF root_element_id # ""
    THEN build_tree_recursive(els, max_depth, root_element_id, 0, {})
    ELSE LET elements     == get_all_elements(els)
             no_dependent == SelectSeq(elements, LAMBDA elem : elem.dependents = <<>>)
             top_level    == IF no_dependent = <<>> THEN elements ELSE no_dependent
         IN build_top_level_trees(els, max_depth, top_level)

\* a variant of tree_statistics that takes an element as orphaned when it has
\* no dependents, whatever its dependencies
tree_statistics_no_dependents(elements) ==
    LET dep_counts == [i \in 1..Len(elements) |-> Len(elements[i].dependencies)]
    IN [total_elements    |-> Len(elements),
        element_types     |-> element_types_of(elements),
        avg_dependencies  |-> RoundDiv(100 * Sum(dep_counts), Len(elements)),
        max_dependencies  |-> MaxOf(dep_counts),
        orphaned_elements |-> Cardinality({i \in 1..Len(elements) :
                                  elements[i].dependents = <<>>})]

\* "Generate statistics" of get_knowledge_tree_view; avg_dependencies is in
\* hundredths
tree_statistics(elements) ==
    LET dep_counts == [i \in 1..Len(elements) |-> Len(elements[i].dependencies)]
    IN [total_elements    |-> Len(elements),
        element_types     |-> element_types_of(elements),
        avg_dependencies  |-> RoundDiv(100 * Sum(dep_counts), Len(elements)),
        max_dependencies  |-> MaxOf(dep_counts),
        orphaned_elements |-> Cardinality({i \in 1..Len(elements) :
                                  /\ elements[i].dependencies = <<>>
                                  /\ elements[i].dependents = <<>>})]

get_knowledge_tree_view(els, root_element_id, max_depth) ==
    LET elements == get_all_elements(els) IN
    IF elements = <<>>
    THEN [success    |-> TRUE,
          message    |-> "Empty",
          tree       |-> EmptyText,
          statistics |-> [total_elements |-> 0]]
    ELSE IF root_element_id # "" /\ els[root_element_id] = NoElem
    THEN [success |-> FALSE, message |-> "NotFound"]
    ELSE [success    |-> TRUE,
          message    |-> "Tree",
          tree       |-> Join(tree_lines_of(els, root_element_id, max_depth)),
          statistics |-> tree_statistics(elements)]

----------------------------------------------------------------------------
(* get_knowledge_tree_stats *)

\* a variant of add_missing_deps without the `dep_id not in all_element_ids`
\* test: every dependency id is taken as missing
RECURSIVE add_missing_deps_untested(_, _, _)
add_missing_deps_untested(missing_deps, dependencies, all_element_ids) ==
    IF dependencies = <<>> THEN missing_deps
    ELSE add_missing_deps_untested(missing_deps \cup {Head(dependencies)},
                                   Tail(dependencies), all_element_ids)

\* the loop "Check for missing dependencies" over one element's dependencies
RECURSIVE add_missing_deps(_, _, _)
add_missing_deps(missing_deps, dependencies, all_element_ids) ==
    IF dependencies = <<>> THEN missing_deps
    ELSE add_missing_deps(IF Head(dependencies) \notin all_element_ids
                          THEN missing_deps \cup {Head(dependencies)}
                          ELSE missing_deps,
                          Tail(dependencies), all_element_ids)

\* the loop over the elements, for the set missing_deps
RECURSIVE collect_missing_deps(_, _, _)
collect_missing_deps(missing_deps, elements, all_element_ids) ==
    IF elements = <<>> THEN missing_deps
    ELSE collect_missing_deps(
             add_missing_deps(missing_deps, Head(elements).dependencies, all_element_ids),
             Tail(elements), all_element_ids)

\* a variant of health_score_of that divides the number of missing ids by
\* total_elements instead of max(total_deps, 1)
health_score_per_element(total_elements, orphaned_elements, missing_count, total_deps) ==
    LET numerator == 100 * total_elements - 20 * orphaned_elements - 30 * missing_count
    IN RoundDiv(10 * Max(0, numerator), total_elements)

\* a variant of health_score_of whose penalties are the counts themselves, not
\* the fractions of the elements and of the dependencies
health_score_unscaled(total_elements, orphaned_elements, missing_count, total_deps) ==
    10 * Max(0, 100 - 20 * orphaned_elements - 30 * missing_count)

\* "Calculate overall health score", for total_elements > 0, in tenths:
\*   round(max(0, 100 - (orphaned / total) * 20 - (missing / max(total_deps, 1)) * 30), 1)
\* computed exactly, on the common denominator total_elements * max(total_deps, 1)
health_score_of(total_elements, orphaned_elements, missing_count, total_deps) ==
    LET edges     == Max(total_deps, 1)
        numerator == 100 * total_elements * edges
                     - 20 * orphaned_elements * edges
                     - 30 * missing_count * total_elements
    IN RoundDiv(10 * Max(0, numerator), total_elements * edges)

\* the ids that the ids of S reach in one or more dependency steps, the walk
\* being n steps long at most
RECURSIVE reached_from(_, _, _)
reached_from(elements, S, n) ==
    LET next == UNION {Range(elements[i].dependencies) :
                          i \in {j \in 1..Len(elements) : elements[j].id \in S}}
    IN IF n = 0 THEN {} ELSE next \cup reached_from(elements, next, n - 1)

\* a variant of circular_dependencies_of that counts: the number of elements
\* that reach themselves along dependencies
circular_dependencies_counted(elements) ==
    Cardinality({i \in 1..Len(elements) :
                    elements[i].id \in reached_from(elements, {elements[i].id},
                                                    Len(elements))})

\* stats["health_metrics"]["circular_dependencies"]: the value the dict is
\* built with; no statement assigns it afterwards
circular_dependencies_of(elements) == 0

\* get_knowledge_tree_stats(); avg_dependencies_per_element is in hundredths,
\* overall_health_score in tenths, missing_dependency_list is the set it lists
get_knowledge_tree_stats(els) ==
    LET elements == get_all_elements(els) IN
    IF elements = <<>>
    THEN [success |-> TRUE,
          message |-> "Empty",
          stats   |-> [total_elements    |-> 0,
                       element_types     |-> EmptyDict,
                       dependency_health |-> "N/A"]]
    ELSE
      LET all_element_ids == {elements[i].id : i \in 1..Len(elements)}
          dep_counts      == [i \in 1..Len(elements) |-> Len(elements[i].dependencies)]
          total_deps      == Sum(dep_counts)
          missing_deps    == collect_missing_deps({}, elements, all_element_ids)
          orphaned        == Cardinality({i \in 1..Len(elements) :
                                 dep_counts[i] = 0 /\ Len(elements[i].dependents) = 0})
      IN [success |-> TRUE,
          message |-> "Stats",
          stats   |->
              [total_elements  |-> Len(elements),
               element_types   |-> element_types_of(elements),
               dependency_stats |->
                   [total_dependencies            |-> total_deps,
                    avg_dependencies_per_element  |-> RoundDiv(100 * total_deps, Len(elements)),
                    max_dependencies              |-> MaxOf(dep_counts),
                    elements_with_no_dependencies |->
                        Cardinality({i \in 1..Len(elements) : dep_counts[i] = 0}),
                    elements_with_no_dependents   |->
                        Cardinality({i \in 1..Len(elements) :
                                        Len(elements[i].dependents) = 0})],
               health_metrics  |->
                   [orphaned_elements     |-> orphaned,
                    missing_dependencies  |-> Cardinality(missing_deps),
                    circular_dependencies |-> circular_dependencies_of(elements),
                    overall_health_score  |-> health_score_of(Len(elements), orphaned,
                                                  Cardinality(missing_deps), total_deps)],
               missing_dependency_list |-> missing_deps]]

----------------------------------------------------------------------------
(* list_all_elements *)

\* the order of the ids as strings
Rank(id) ==
    CASE id = ""  -> 0
      [] id = "a" -> 1
      [] id = "b" -> 2
      [] id = "c" -> 3
      [] id = "g" -> 4

\* sorted(elements, key=lambda x: x.id)
RECURSIVE sorted_by_id(_)
sorted_by_id(S) ==
    IF S = {} THEN <<>>
    ELSE LET first == CHOOSE x \in S : \A y \in S : Rank(x) <= Rank(y)
         IN <<first>> \o sorted_by_id(S \ {first})

list_all_elements(els) ==
    LET elements == get_all_elements(els)
        ids      == sorted_by_id({elements[i].id : i \in 1..Len(elements)})
    IN
    IF ids = <<>>
    THEN [success |-> TRUE, message |-> "Empty", elements |-> <<>>, total |-> 0]
    ELSE [success  |-> TRUE,
          message  |-> "Listed",
          elements |-> [i \in 1..Len(ids) |->
                           [id                 |-> els[ids[i]].id,
                            type               |-> els[ids[i]].type,
                            description        |-> els[ids[i]].description,
                            dependencies_count |-> Len(els[ids[i]].dependencies),
                            dependents_count   |-> Len(els[ids[i]].dependents),
                            created_at         |-> els[ids[i]].created_at]],
          total    |-> Len(ids)]

----------------------------------------------------------------------------
(* try / except of the tools *)

\* a variant of try_body in which get_element saves the element it loaded
\* (a "last accessed" write): save_element stamps updated_at and rewrites the
\* metadata
try_body_touching(st, now, c) ==
    CASE c.op = "add_code_element" ->
             add_code_element(st, now, c.element_id, c.element_type, c.code, c.description,
                              c.dependencies, c.source_file, c.line_range)
      [] c.op = "edit_dependencies" ->
             edit_dependencies(st, now, c.element_id, c.dependencies, c.operation)
      [] c.op = "update_code_element" ->
             update_code_element(st, now, c.element_id, c.code, c.description,
                                 c.dependencies, c.source_file, c.line_range)
      [] c.op = "remove_element" ->
             remove_element(st, now, c.element_id)
      [] c.op = "get_element" ->
             [st  |-> IF load_element(st.elems, c.element_id) # NoElem
                      THEN save_element(st, load_element(st.elems, c.element_id), now)
                      ELSE st,
              ret |-> get_element(st.elems, c.element_id)]
      [] c.op = "find_missing_dependencies" ->
             [st |-> st, ret |-> find_missing_dependencies(st.elems, c.element_id)]
      [] c.op = "get_knowledge_tree_view" ->
             [st |-> st, ret |-> get_knowledge_tree_view(st.elems, c.root_element_id,
                                                         c.max_depth)]
      [] c.op = "list_all_elements" ->
             [st |-> st, ret |-> list_all_elements(st.elems)]
      [] c.op = "get_knowledge_tree_stats" ->
             [st |-> st, ret |-> get_knowledge_tree_stats(st.elems)]

\* the `try` body of the tool that call c names, run on the store st with no
\* file operation failing: [st, ret], st.points holding the contents of the
\* directory at each file operation the body reached
try_body(st, now, c) ==
    CASE c.op = "add_code_element" ->
             add_code_element(st, now, c.element_id, c.element_type, c.code, c.description,
                              c.dependencies, c.source_file, c.line_range)
      [] c.op = "edit_dependencies" ->
             edit_dependencies(st, now, c.element_id, c.dependencies, c.operation)
      [] c.op = "update_code_element" ->
             update_code_element(st, now, c.element_id, c.code, c.description,
                                 c.dependencies, c.source_file, c.line_range)
      [] c.op = "remove_element" ->
             remove_element(st, now, c.element_id)
      [] c.op = "get_element" ->
             [st |-> st, ret |-> get_element(st.elems, c.element_id)]
      [] c.op = "find_missing_dependencies" ->
             [st |-> st, ret |-> find_missing_dependencies(st.elems, c.element_id)]
      [] c.op = "get_knowledge_tree_view" ->
             [st |-> st, ret |-> get_knowledge_tree_view(st.elems, c.root_element_id,
                                                         c.max_depth)]
      [] c.op = "list_all_elements" ->
             [st |-> st, ret |-> list_all_elements(st.elems)]
      [] c.op = "get_knowledge_tree_stats" ->
             [st |-> st, ret |-> get_knowledge_tree_stats(st.elems)]

\* the ways the `try` body ends when one file operation raises (OSError,
\* JSONDecodeError, ...): the exception leaves the body with the directory as
\* it was when the operation was reached
raising_runs(st, now, c) ==
    {[st |-> point, raised |-> TRUE] : point \in try_body(st, now, c).st.points}

\* a variant of except_clause without the `except Exception` clause: the
\* exception leaves the tool
except_clause_missing(run) ==
    [st |-> run.st, ret |-> [raised |-> TRUE]]

\* `except Exception as e: return {"success": False, "message": f"Error ...: {str(e)}"}`,
\* the same clause in every tool
except_clause(run) ==
    [st |-> run.st, ret |-> [success |-> FALSE, message |-> "Error"]]

----------------------------------------------------------------------------
(* The tool calls as actions *)


\* the `dependencies` arguments a client passes
DepArgs == {DepList(l) : l \in DepLists} \cup {DepStr(x) : x \in Ids}

\* the `operation` arguments a client passes: the three operations and one
\* string that is none of them
OperationArgs == Operations \cup {"merge"}

\* no call is being answered: the server waits for the next request
NoCall == [op |-> "none"]
NoResult == [success |-> TRUE, message |-> "none"]
Idle == call = NoCall

\* the store as the handlers take it: the directory, and the first file
\* operation (every handler begins with a load_element or a get_all_elements)
Store == [elems |-> elems, meta |-> meta,
          points |-> {[elems |-> elems, meta |-> meta]}]

\* the store after a handler returned r = [st, ret]
Returned(r) ==
    /\ elems' = r.st.elems
    /\ meta' = r.st.meta
    /\ result' = r.ret
    /\ clock' = clock

AddCodeElement(ids, types, texts, files, depArgs) ==
    /\ Idle
    /\ \E element_id \in ids, element_type \in types, code \in texts, description \in texts,
       dependencies \in depArgs, source_file \in files, line_range \in files :
        /\ call' = [op |-> "add_code_element", element_id |-> element_id,
                    element_type |-> element_type, code |-> code,
                    description |-> description, dependencies |-> dependencies,
                    source_file |-> source_file, line_range |-> line_range]
        /\ Returned(add_code_element(Store, clock, element_id, element_type, code,
                                     description, dependencies, source_file, line_range))

EditDependencies(ids, depArgs) ==
    /\ Idle
    /\ \E element_id \in ids, dependencies \in depArgs, operation \in OperationArgs :
        /\ call' = [op |-> "edit_dependencies", element_id |-> element_id,
                    dependencies |-> dependencies, operation |-> operation]
        /\ Returned(edit_dependencies(Store, clock, element_id, dependencies, operation))

UpdateCodeElement(ids, texts, files, depArgs) ==
    /\ Idle
    /\ \E element_id \in ids, code \in texts, description \in texts,
       dependencies \in depArgs, source_file \in files, line_range \in files :
        /\ call' = [op |-> "update_code_element", element_id |-> element_id,
                    code |-> code, description |-> description,
                    dependencies |-> dependencies,
                    source_file |-> source_file, line_range |-> line_range]
        /\ Returned(update_code_element(Store, clock, element_id, code, description,
                                        dependencies, source_file, line_range))

RemoveElement(ids) ==
    /\ Idle
    /\ \E element_id \in ids :
        /\ call' = [op |-> "remove_element", element_id |-> element_id]
        /\ Returned(remove_element(Store, clock, element_id))

GetElement ==
    /\ Idle
    /\ \E element_id \in Names :
        /\ call' = [op |-> "get_element", element_id |-> element_id]
        /\ result' = get_element(elems, element_id)
        /\ UNCHANGED <<elems, meta, clock>>

FindMissingDependencies ==
    /\ Idle
    /\ \E element_id \in Names \cup {""} :
        /\ call' = [op |-> "find_missing_dependencies", element_id |-> element_id]
        /\ result' = find_missing_dependencies(elems, element_id)
        /\ UNCHANGED <<elems, meta, clock>>

GetKnowledgeTreeView(roots, depths) ==
    /\ Idle
    /\ \E root_element_id \in roots, max_depth \in depths :
        /\ call' = [op |-> "get_knowledge_tree_view", root_element_id |-> root_element_id,
                    max_depth |-> max_depth]
        /\ result' = get_knowledge_tree_view(elems, root_element_id, max_depth)
        /\ UNCHANGED <<elems, meta, clock>>

GetKnowledgeTreeStats ==
    /\ Idle
    /\ call' = [op |-> "get_knowledge_tree_stats"]
    /\ result' = get_knowledge_tree_stats(elems)
    /\ UNCHANGED <<elems, meta, clock>>

ListAllElements ==
    /\ Idle
    /\ call' = [op |-> "list_all_elements"]
    /\ result' = list_all_elements(elems)
    /\ UNCHANGED <<elems, meta, clock>>

\* A tool call during which one file operation raises: the handler runs up to
\* that operation, then its except clause builds the returned value.  The call
\* is recorded with the mark `raised`.
StorageFailure(calls) ==
    /\ Idle
    /\ \E c \in calls :
        \E run \in raising_runs(Store, clock, c) :
            /\ call' = c @@ [raised |-> TRUE]
            /\ Returned(except_clause(run))

\* A tool call in which no file operation raises: the handler's try body runs
\* to its return.
ToolCall(calls) ==
    /\ Idle
    /\ \E c \in calls :
        /\ call' = c
        /\ Returned(try_body(Store, clock, c))

\* The returned value reaches the client; the server takes the next request
\* only then (one tool call at a time).
Respond ==
    /\ ~Idle
    /\ call' = NoCall
    /\ result' = NoResult
    /\ UNCHANGED <<elems, meta, clock>>

\* Time passes between two tool calls: datetime.now() returns a later value.
Tick ==
    /\ Idle
    /\ clock < MaxClock
    /\ clock' = clock + 1
    /\ UNCHANGED <<elems, meta, call, result>>

----------------------------------------------------------------------------
(* The server after initialize_working_directory: no element, fresh metadata *)

Init ==
    /\ elems = [i \in Names |-> NoElem]
    /\ clock = 1
    /\ meta = [created_at |-> 1, total_elements |-> 0, last_updated |-> 1]
    /\ call = NoCall
    /\ result = NoResult

\* Sequential tool calls on the dependency graph: one type, one text value,
\* every dependency argument.
Next ==
    \/ AddCodeElement(Ids, {"function"}, {"t1"}, {""}, DepArgs \cup {DepNone})
    \/ EditDependencies(Ids, DepArgs)
    \/ UpdateCodeElement(Ids, {""}, {""}, DepArgs \cup {DepNone})
    \/ RemoveElement(Ids)
    \/ GetElement
    \/ FindMissingDependencies
    \/ Respond

Spec == Init /\ [][Next]_vars

\* the `dependencies` arguments that may also name the ghost id
GhostArgs == {DepList(l) : l \in SeqsUpTo(Names, MaxGhostLen)}

\* Sequential tool calls whose dependency lists range over the added ids and
\* the ghost id: two stored elements can reference the same missing id.
NextDangling ==
    \/ AddCodeElement(Ids, {"function"}, {"t1"}, {""}, GhostArgs)
    \/ EditDependencies(Ids, GhostArgs)
    \/ UpdateCodeElement(Ids, {""}, {""}, GhostArgs)
    \/ RemoveElement(Ids)
    \/ GetElement
    \/ FindMissingDependencies
    \/ Respond

SpecDangling == Init /\ [][NextDangling]_vars

\* the `dependencies` arguments of the calls on the text fields
FieldDepArgs == {DepNone, DepList(<<>>), DepList(<<"a">>)}

\* Sequential tool calls on one element with every kind of text argument
\* (omitted, blank, a value with surrounding blanks), two element types, and
\* time passing between the calls.
NextFields ==
    \/ AddCodeElement({"a"}, {"function", "module"}, {"t1"}, {"", "f1"}, FieldDepArgs)
    \/ UpdateCodeElement({"a"}, {"", " ", " t2 "}, {"", "f2"}, FieldDepArgs)
    \/ RemoveElement({"a"})
    \/ GetElement
    \/ Tick
    \/ Respond

SpecFields == Init /\ [][NextFields]_vars

\* the `dependencies` arguments of the calls between which time passes
ClockDepArgs == {DepList(l) : l \in SeqsUpTo(Ids, MaxClockLen)}

\* Sequential tool calls of the four mutating handlers, with time passing
\* between the calls: the timestamps of the records and of the metadata vary.
NextClock ==
    \/ AddCodeElement(Ids, {"function"}, {"t1"}, {""}, ClockDepArgs)
    \/ EditDependencies(Ids, ClockDepArgs)
    \/ UpdateCodeElement(Ids, {""}, {""}, ClockDepArgs \cup {DepNone})
    \/ RemoveElement(Ids)
    \/ Tick
    \/ Respond

SpecClock == Init /\ [][NextClock]_vars

\* the `dependencies` arguments of the calls during which a file operation
\* can fail
FaultDepArgs == {DepList(l) : l \in SeqsUpTo(Ids, MaxFaultLen)}

\* the calls of the nine tools during which a file operation can fail
FaultCalls ==
    {[op |-> "add_code_element", element_id |-> id, element_type |-> "function",
      code |-> "t1", description |-> "t1", dependencies |-> d,
      source_file |-> "", line_range |-> ""] : id \in Ids, d \in FaultDepArgs}
    \cup {[op |-> "edit_dependencies", element_id |-> id, dependencies |-> d,
           operation |-> o] : id \in Ids, d \in FaultDepArgs, o \in OperationArgs}
    \cup {[op |-> "update_code_element", element_id |-> id, code |-> "",
           description |-> "", dependencies |-> d, source_file |-> "",
           line_range |-> ""] : id \in Ids, d \in FaultDepArgs \cup {DepNone}}
    \cup {[op |-> "remove_element", element_id |-> id] : id \in Ids}
    \cup {[op |-> "get_element", element_id |-> id] : id \in Names}
    \cup {[op |-> "find_missing_dependencies", element_id |-> id] : id \in Names \cup {""}}
    \cup {[op |-> "get_knowledge_tree_view", root_element_id |-> id,
           max_depth |-> MaxDepth] : id \in Names \cup {""}}
    \cup {[op |-> "list_all_elements"], [op |-> "get_knowledge_tree_stats"]}

\* Sequential tool calls, in any of which one file operation may
\* raise: the directory can be left between two writes of a handler.
NextFaults ==
    \/ AddCodeElement(Ids, {"function"}, {"t1"}, {""}, FaultDepArgs)
    \/ EditDependencies(Ids, FaultDepArgs)
    \/ UpdateCodeElement(Ids, {""}, {""}, FaultDepArgs \cup {DepNone})
    \/ RemoveElement(Ids)
    \/ ListAllElements
    \/ StorageFailure(FaultCalls)
    \/ Respond

SpecFaults == Init /\ [][NextFaults]_vars

\* the same server on a directory where three ids can occur
InitTree ==
    /\ elems = [i \in TreeIds |-> NoElem]
    /\ clock = 1
    /\ meta = [created_at |-> 1, total_elements |-> 0, last_updated |-> 1]
    /\ call = NoCall
    /\ result = NoResult

\* the `dependencies` arguments of the calls that build the graphs to render:
\* the lists that name no id twice
TreeDepArgs ==
    {DepList(l) : l \in {m \in SeqsUpTo(TreeIds, MaxTreeLen) :
                             \A i, j \in 1..Len(m) : i # j => m[i] # m[j]}}

\* the max_depth arguments: a negative one, zero, and up to MaxDepth
Depths == (-1)..MaxDepth

\* Sequential tool calls that build graphs over three ids (chains, shared
\* dependencies, cycles, self-loops, dependencies on ids not added yet or
\* removed) and report on them.
NextTree ==
    \/ AddCodeElement(TreeIds, {"function"}, {"t1"}, {""}, TreeDepArgs)
    \/ RemoveElement(TreeIds)
    \/ GetKnowledgeTreeView(TreeIds \cup {""}, Depths)
    \/ GetKnowledgeTreeStats
    \/ Respond

SpecTree == InitTree /\ [][NextTree]_vars

\* the same server on a directory where three ids and the ghost id can occur
InitChain ==
    /\ elems = [i \in TreeIds \cup {Ghost} |-> NoElem]
    /\ clock = 1
    /\ meta = [created_at |-> 1, total_elements |-> 0, last_updated |-> 1]
    /\ call = NoCall
    /\ result = NoResult

\* the `dependencies` arguments of the calls that build chains: the lists,
\* naming no id twice, over the three ids and the ghost id
ChainDepArgs ==
    {DepList(l) : l \in {m \in SeqsUpTo(TreeIds \cup {Ghost}, MaxChainLen) :
                             \A i, j \in 1..Len(m) : i # j => m[i] # m[j]}}

\* the max_depth arguments for a chain: up to the default
ChainDepths == (-1)..DefaultMaxDepth

\* Sequential adds that build paths through up to three elements to an id
\* that is never added (four levels), and the views from a and from the
\* top-level elements to every depth.
NextChain ==
    \/ AddCodeElement(TreeIds, {"function"}, {"t1"}, {""}, ChainDepArgs)
    \/ GetKnowledgeTreeView({"a", ""}, ChainDepths)
    \/ Respond

SpecChain == InitChain /\ [][NextChain]_vars

\* the `dependencies` arguments of the calls between which the store is read
ReadDepArgs == {DepList(<<>>), DepList(<<"a">>), DepList(<<"b">>), DepList(<<"a", "b">>)}

\* the calls of the five tools that only read
ReadCalls ==
    {[op |-> "get_element", element_id |-> id] : id \in Names}
    \cup {[op |-> "find_missing_dependencies", element_id |-> id] : id \in Names \cup {""}}
    \cup {[op |-> "get_knowledge_tree_view", root_element_id |-> id,
           max_depth |-> DefaultMaxDepth] : id \in Names \cup {""}}
    \cup {[op |-> "list_all_elements"], [op |-> "get_knowledge_tree_stats"]}

\* Sequential tool calls, mutating and read-only, with time passing between
\* them: a read can come later than the last write of the records it returns.
NextReads ==
    \/ AddCodeElement(Ids, {"function"}, {"t1"}, {""}, ReadDepArgs)
    \/ EditDependencies(Ids, ReadDepArgs)
    \/ UpdateCodeElement(Ids, {""}, {""}, ReadDepArgs \cup {DepNone})
    \/ RemoveElement(Ids)
    \/ ToolCall(ReadCalls)
    \/ Tick
    \/ Respond

SpecReads == Init /\ [][NextReads]_vars

\* the ids of the calls that name an element by the empty string
EmptyIds == {"", "b"}

\* the `dependencies` arguments of these calls
EmptyIdArgs == {DepList(<<>>), DepList(<<"">>), DepList(<<"b">>)}

\* the read-only calls among them
EmptyIdCalls ==
    {[op |-> "get_element", element_id |-> id] : id \in EmptyIds}
    \cup {[op |-> "list_all_elements"]}

InitEmptyId ==
    /\ elems = [i \in Names \cup EmptyIds |-> NoElem]
    /\ clock = 1
    /\ meta = [created_at |-> 1, total_elements |-> 0, last_updated |-> 1]
    /\ call = NoCall
    /\ result = NoResult

\* Sequential tool calls in which element_id can be the empty string: no
\* handler tests the id it is given, and the record is the file ".json".
NextEmptyId ==
    \/ AddCodeElement(EmptyIds, {"function"}, {"t1"}, {""}, EmptyIdArgs)
    \/ EditDependencies(EmptyIds, EmptyIdArgs)
    \/ UpdateCodeElement(EmptyIds, {""}, {""}, EmptyIdArgs \cup {DepNone})
    \/ RemoveElement(EmptyIds)
    \/ ToolCall(EmptyIdCalls)
    \/ Respond

SpecEmptyId == InitEmptyId /\ [][NextEmptyId]_vars

\* the `dependencies` arguments of the calls that build the graphs to count:
\* lists over the added ids and the ghost id, an id possibly named twice
StatsDepArgs == {DepList(l) : l \in SeqsUpTo(Names, MaxStatsLen)}

\* Sequential tool calls that build graphs of elements of two types, with
\* dependencies on ids without a record, and the two reports that count them.
NextStats ==
    \/ AddCodeElement(Ids, {"function", "module"}, {"t1"}, {""}, StatsDepArgs)
    \/ RemoveElement(Ids)
    \/ GetKnowledgeTreeStats
    \/ GetKnowledgeTreeView(Names \cup {""}, {0, DefaultMaxDepth})
    \/ FindMissingDependencies
    \/ Respond

SpecStats == Init /\ [][NextStats]_vars

----------------------------------------------------------------------------
(* Two servers on one directory: the handlers file operation by file operation *)

\* longest dependency list in the calls that overlap
MaxOverlapLen == 1

\* number of calls the two servers receive in all
MaxCalls == 3

\* the server processes started on the same working directory
Procs == {1, 2}

\* What a handler holds between two file operations (its frame): the call, the
\* place it is at (pc), and its local variables.  A local variable that is no
\* longer read is set back to its initial value.
IdleFrame ==
    [op |-> "none", pc |-> "idle", element_id |-> "", dependencies |-> <<>>,
     element          |-> NoElem,  \* element (add: the new one, remove: the loaded one)
     todo             |-> <<>>,    \* rest of deps_list / of the glob
     all_elements     |-> <<>>,    \* remove: all_elements, then the rest of the scan
     saving           |-> NoElem,  \* save_element: its argument
     after            |-> "",      \* where the handler goes on after save_element
     count            |-> 0,       \* update_metadata: element_count
     created          |-> NoTime,  \* update_metadata: existing["created_at"]
     existing         |-> <<>>,    \* existing_dependencies
     missing          |-> <<>>,    \* missing_dependencies
     updated_elements |-> <<>>]

\* the handler has not returned yet
Running(f) == f.pc \notin {"idle", "returned"}

\* one file operation done, nothing returned: the handler goes on
Goes(f, els, md) == [f |-> f, elems |-> els, meta |-> md, ret |-> NoResult]

\* the handler returns ret
Returns(f, els, md, ret) ==
    [f |-> [f EXCEPT !.pc = "returned"], elems |-> els, meta |-> md, ret |-> ret]

\* save_element(element) is called: its first file operation is the write
call_save_element(f, element, after) ==
    [f EXCEPT !.saving = element, !.after = after, !.pc = "write_element"]

\* add_code_element: the return
return_added(f, els, md, now) ==
    Returns(f, els, md,
            [success |-> TRUE,
             message |-> "Added",
             element |-> [id           |-> f.element_id,
                          type         |-> "function",
                          description  |-> "t1",
                          dependencies |-> f.dependencies,
                          created_at   |-> now],
             dependency_analysis |->
                 [total_dependencies    |-> Len(f.dependencies),
                  existing_dependencies |-> f.existing,
                  missing_dependencies  |-> f.missing,
                  missing_count         |-> Len(f.missing)]])

\* remove_element: the return
return_removed(f, els, md, now) ==
    Returns(f, els, md,
            [success |-> TRUE,
             message |-> "Removed",
             cleaned_references   |-> f.updated_elements,
             dependencies_removed |-> f.element.dependencies,
             dependents_updated   |-> f.element.dependents])

\* remove_element: `for other_element in all_elements` from the head of
\* f.all_elements up to the next save_element, or to the unlink when no record
\* is left to save.  No file is read: the records loaded before the scan are
\* the ones that are changed and saved.
RECURSIVE scan_dependencies(_)
RECURSIVE scan_dependents(_)
scan_dependencies(f) ==
    IF f.all_elements = <<>> THEN [f EXCEPT !.pc = "unlink_file"]
    ELSE
      LET other_element == Head(f.all_elements) IN
      IF other_element.id = f.element_id
      THEN scan_dependencies([f EXCEPT !.all_elements = Tail(@)])
      ELSE IF InSeq(f.element_id, other_element.dependencies)
      THEN LET other1 == [other_element EXCEPT
                             !.dependencies = ListRemove(@, f.element_id)]
           IN call_save_element(
                  [f EXCEPT !.all_elements = <<other1>> \o Tail(@),
                            !.updated_elements =
                                Append(@, <<other_element.id, "dependencies">>)],
                  other1, "scan_dependents")
      ELSE scan_dependents(f)

\* "Remove from dependents", for the same other_element
scan_dependents(f) ==
    LET other_element == Head(f.all_elements) IN
    IF InSeq(f.element_id, other_element.dependents)
    THEN LET other2 == [other_element EXCEPT !.dependents = ListRemove(@, f.element_id)]
         IN call_save_element(
                [f EXCEPT !.all_elements = Tail(@),
                          !.updated_elements =
                              Append(@, <<other_element.id, "dependents">>)],
                other2, "scan_dependencies")
    ELSE scan_dependencies([f EXCEPT !.all_elements = Tail(@)])

\* The statements between a file operation and the next one: the handler goes
\* on from f.pc, without touching a file, up to its next file operation or to
\* its return.
proceed(f, els, md, now) ==
    CASE f.pc = "next_dependency" ->
             IF f.todo = <<>> THEN return_added(f, els, md, now)
             ELSE Goes([f EXCEPT !.pc = "load_dependency"], els, md)
      [] f.pc = "next_file" ->
             IF f.todo = <<>> THEN Goes(scan_dependencies(f), els, md)
             ELSE Goes([f EXCEPT !.pc = "read_element"], els, md)
      [] f.pc = "scan_dependencies" -> Goes(scan_dependencies(f), els, md)
      [] f.pc = "scan_dependents"   -> Goes(scan_dependents(f), els, md)
      [] f.pc = "return_removed"    -> return_removed(f, els, md, now)
      [] OTHER                      -> Goes(f, els, md)

\* save_element: open(element_file, 'w'), json.dump
write_element(f, els, md, now) ==
    LET stamped == [f.saving EXCEPT
                       !.updated_at = now,
                       !.created_at = IF @ = NoTime THEN now ELSE @]
    IN Goes([f EXCEPT !.saving = NoElem, !.pc = "count_elements"],
            [els EXCEPT ![stamped.id] = stamped], md)

\* update_metadata: len(list(ELEMENTS_DIR.glob("*.json")))
count_elements(f, els, md, now) ==
    Goes([f EXCEPT !.count = Cardinality(Stored(els)), !.pc = "read_metadata"], els, md)

\* update_metadata: the metadata file is read for created_at
read_metadata(f, els, md, now) ==
    Goes([f EXCEPT !.created = md.created_at, !.pc = "write_metadata"], els, md)

\* update_metadata: the metadata file is written; the caller goes on
write_metadata(f, els, md, now) ==
    proceed([f EXCEPT !.count = 0, !.created = NoTime, !.pc = f.after, !.after = ""],
            els,
            [total_elements |-> f.count, last_updated |-> now, created_at |-> f.created],
            now)

\* add_code_element: load_element(element_id), the test, the new element
add_load_existing(f, els, md, now) ==
    LET existing == load_element(els, f.element_id) IN
    IF existing # NoElem
    THEN Returns(f, els, md,
                 [success |-> FALSE,
                  message |-> "AlreadyExists",
                  existing_element |-> [id          |-> existing.id,
                                        type        |-> existing.type,
                                        description |-> existing.description]])
    ELSE LET element == CodeElement(f.element_id, "function", "t1", "t1",
                                    f.dependencies, None, None)
         IN Goes(call_save_element([f EXCEPT !.todo = f.dependencies],
                                   element, "next_dependency"),
                 els, md)

\* a variant of load_dependency that appends to the dependents of the record
\* only in memory: save_element(dep_element) is left out
load_dependency_unsaved(f, els, md, now) ==
    LET dep_id      == Head(f.todo)
        dep_element == load_element(els, dep_id)
    IN IF dep_element # NoElem
       THEN proceed([f EXCEPT !.todo = Tail(@), !.existing = Append(@, dep_id),
                              !.pc = "next_dependency"],
                    els, md, now)
       ELSE proceed([f EXCEPT !.todo = Tail(@), !.missing = Append(@, dep_id),
                              !.pc = "next_dependency"],
                    els, md, now)

\* add_code_element: one turn of `for dep_id in deps_list`, from its file
\* operation load_element(dep_id)
load_dependency(f, els, md, now) ==
    LET dep_id      == Head(f.todo)
        dep_element == load_element(els, dep_id)
    IN IF dep_element # NoElem
       THEN LET f1 == [f EXCEPT !.todo = Tail(@), !.existing = Append(@, dep_id),
                                !.pc = "next_dependency"]
            IN IF ~InSeq(f.element_id, dep_element.dependents)
               THEN Goes(call_save_element(f1,
                             [dep_element EXCEPT !.dependents = Append(@, f.element_id)],
                             "next_dependency"),
                         els, md)
               ELSE proceed(f1, els, md, now)
       ELSE proceed([f EXCEPT !.todo = Tail(@), !.missing = Append(@, dep_id),
                              !.pc = "next_dependency"],
                    els, md, now)

\* remove_element: load_element(element_id) and the test
remove_load_element(f, els, md, now) ==
    LET element == load_element(els, f.element_id) IN
    IF element = NoElem
    THEN Returns(f, els, md, [success |-> FALSE, message |-> "NotFound"])
    ELSE Goes([f EXCEPT !.element = element, !.pc = "glob_elements"], els, md)

\* get_all_elements: ELEMENTS_DIR.glob("*.json")
glob_elements(f, els, md, now) ==
    proceed([f EXCEPT !.todo = SeqOfSet(Stored(els)), !.pc = "next_file"], els, md, now)

\* get_all_elements: load_element of the next file of the glob; a file that is
\* no longer there is skipped
read_element(f, els, md, now) ==
    LET element == load_element(els, stem(Head(f.todo)))
    IN proceed([f EXCEPT !.todo = Tail(@),
                         !.all_elements = IF element # NoElem THEN Append(@, element) ELSE @,
                         !.pc = "next_file"],
               els, md, now)

\* remove_element: element_file.unlink(), which raises FileNotFoundError when
\* the file is no longer there; then update_metadata()
unlink_file(f, els, md, now) ==
    IF els[f.element_id] = NoElem
    THEN Returns(f, els, md, [success |-> FALSE, message |-> "Error"])
    ELSE Goes([f EXCEPT !.pc = "count_elements", !.after = "return_removed"],
              [els EXCEPT ![f.element_id] = NoElem], md)

\* the file operation the handler whose frame is f is at, and the statements
\* up to the next one
handler_step(f, els, md, now) ==
    CASE f.pc = "add_load_existing"   -> add_load_existing(f, els, md, now)
      [] f.pc = "load_dependency"     -> load_dependency(f, els, md, now)
      [] f.pc = "remove_load_element" -> remove_load_element(f, els, md, now)
      [] f.pc = "glob_elements"       -> glob_elements(f, els, md, now)
      [] f.pc = "read_element"        -> read_element(f, els, md, now)
      [] f.pc = "unlink_file"         -> unlink_file(f, els, md, now)
      [] f.pc = "write_element"       -> write_element(f, els, md, now)
      [] f.pc = "count_elements"      -> count_elements(f, els, md, now)
      [] f.pc = "read_metadata"       -> read_metadata(f, els, md, now)
      [] f.pc = "write_metadata"      -> write_metadata(f, els, md, now)

\* In this specification `call` is [frames, begun, overlapped]: the frame of
\* each process, the number of calls received so far, and whether a call ever
\* began while another one was running; `result` holds the returned value of
\* each process.

\* a request reaches process p, which is waiting for one
Begins(p, f) ==
    /\ call.frames[p].pc = "idle"
    /\ call.begun < MaxCalls
    /\ call' = [frames     |-> [call.frames EXCEPT ![p] = f],
                begun      |-> call.begun + 1,
                overlapped |-> call.overlapped
                               \/ \E q \in Procs \ {p} : Running(call.frames[q])]
    /\ UNCHANGED <<elems, meta, clock, result>>

\* add_code_element(element_id, "function", "t1", "t1", dependencies) is called
BeginAdd(p, ids, lists) ==
    \E element_id \in ids, dependencies \in lists :
        Begins(p, [IdleFrame EXCEPT !.op = "add_code_element",
                                    !.pc = "add_load_existing",
                                    !.element_id = element_id,
                                    !.dependencies = dependencies])

\* remove_element(element_id) is called
BeginRemove(p, ids) ==
    \E element_id \in ids :
        Begins(p, [IdleFrame EXCEPT !.op = "remove_element",
                                    !.pc = "remove_load_element",
                                    !.element_id = element_id])

\* the handler running in process p does its next file operation
Step(p) ==
    /\ Running(call.frames[p])
    /\ LET r == handler_step(call.frames[p], elems, meta, clock)
       IN /\ elems' = r.elems
          /\ meta' = r.meta
          /\ call' = [call EXCEPT !.frames[p] = r.f]
          /\ result' = [result EXCEPT ![p] = r.ret]
    /\ clock' = clock

\* the returned value of process p reaches its client
RespondOverlap(p) ==
    /\ call.frames[p].pc = "returned"
    /\ call' = [call EXCEPT !.frames[p] = IdleFrame]
    /\ result' = [result EXCEPT ![p] = NoResult]
    /\ UNCHANGED <<elems, meta, clock>>

\* the directory after add_code_element("b", ...) on the empty one, and two
\* servers started on it
InitOverlap ==
    /\ LET empty == [elems  |-> [i \in TreeIds |-> NoElem],
                     meta   |-> [created_at |-> 1, total_elements |-> 0, last_updated |-> 1],
                     points |-> {}]
           st    == add_code_element(empty, 1, "b", "function", "t1", "t1", DepNone,
                                     "", "").st
       IN elems = st.elems /\ meta = st.meta
    /\ clock = 1
    /\ call = [frames |-> [p \in Procs |-> IdleFrame], begun |-> 0, overlapped |-> FALSE]
    /\ result = [p \in Procs |-> NoResult]

\* the dependency lists of the overlapping adds: on b only
OverlapLists == SeqsUpTo({"b"}, MaxOverlapLen)

\* Two servers on the directory that holds b.  Clients add a and c, which may
\* depend on b, and remove elements; nothing orders the file operations of two
\* handlers that run at the same time.
NextOverlap ==
    \E p \in Procs :
        \/ BeginAdd(p, {"a", "c"}, OverlapLists)
        \/ BeginRemove(p, TreeIds)
        \/ Step(p)
        \/ RespondOverlap(p)

SpecOverlap == InitOverlap /\ [][NextOverlap]_vars

----------------------------------------------------------------------------
(* Reciprocity of the two edge lists *)

\* dependencies / dependents of a stored element, as sets
Deps(A) == Range(elems[A].dependencies)
Dependents(B) == Range(elems[B].dependents)

\* C1 (forward reciprocity): after every completed tool call, for all stored
\* elements A and B (A = B allowed), if B is in A.dependencies then A is in
\* B.dependents.
C1_ForwardReciprocity ==
    \A A \in Stored(elems), B \in Stored(elems) :
        B \in Deps(A) => A \in Dependents(B)

\* C2 (reverse reciprocity): after every completed tool call, for all stored
\* elements A and B (A = B allowed), if A is in B.dependents then B is in
\* A.dependencies.
C2_ReverseReciprocity ==
    \A A \in Stored(elems), B \in Stored(elems) :
        A \in Dependents(B) => B \in Deps(A)

----------------------------------------------------------------------------
(* remove_element *)

\* C3 (remove scrubs all references): after remove_element(id) returned
\* success, get_element(id) reports the element absent and no remaining element
\* has id in its dependencies or in its dependents.
C3_RemoveScrubsAllReferences ==
    (call.op = "remove_element" /\ result.success) =>
        /\ ~get_element(elems, call.element_id).success
        /\ \A other \in Stored(elems) :
              /\ call.element_id \notin Deps(other)
              /\ call.element_id \notin Dependents(other)

----------------------------------------------------------------------------
(* add_code_element *)

\* C4 (no upsert): add_code_element on an id that has a record returns the
\* AlreadyExists failure and leaves every element record and the metadata
\* record as they were.
C4_AddExistingChangesNothing ==
    [][(call'.op = "add_code_element" /\ elems[call'.element_id] # NoElem) =>
          /\ ~result'.success
          /\ result'.message = "AlreadyExists"
          /\ elems' = elems
          /\ meta' = meta]_vars

\* an add on an id that has a record was answered
C4_Witness ==
    /\ call.op = "add_code_element"
    /\ ~result.success
    /\ elems[call.element_id] # NoElem
    /\ call.dependencies = DepList(<<"b">>)
    /\ elems[call.element_id].dependencies = <<>>

\* the subsequence of s made of its members of S
Select(s, S) == SelectSeq(s, LAMBDA x : x \in S)

\* the list a `dependencies` argument stands for in add_code_element
GivenDependencies(dependencies) ==
    CASE dependencies.kind = "list" -> dependencies.l
      [] dependencies.kind = "str"  -> <<dependencies.s>>
      [] dependencies.kind = "none" -> <<>>

\* C5 (dangling dependencies survive an add): add_code_element(a, D) on an
\* id without a record succeeds whether or not the ids of D exist; the stored
\* a.dependencies is D; existing_dependencies and missing_dependencies split D,
\* an id being reported missing exactly when it has no record; and
\* find_missing_dependencies(a) right after reports each missing id, with a as
\* its referencer.
C5_AddKeepsDanglingDependencies ==
    [][(call'.op = "add_code_element" /\ elems[call'.element_id] = NoElem) =>
          LET a       == call'.element_id
              D       == GivenDependencies(call'.dependencies)
              missing == Select(D, Names \ Stored(elems'))
              found   == find_missing_dependencies(elems', a)
          IN /\ result'.success
             /\ elems'[a] # NoElem
             /\ elems'[a].dependencies = D
             /\ result'.dependency_analysis.existing_dependencies = Select(D, Stored(elems'))
             /\ result'.dependency_analysis.missing_dependencies = missing
             /\ found.success
             /\ DOMAIN found.missing_dependencies = Range(missing)
             /\ \A d \in Range(missing) :
                   /\ found.missing_dependencies[d] # <<>>
                   /\ \A k \in 1..Len(found.missing_dependencies[d]) :
                         found.missing_dependencies[d][k].referencing_element = a]_vars

\* a was added with a dependency on b, which has no record, and on itself
C5_Witness ==
    /\ call.op = "add_code_element"
    /\ result.success
    /\ call.dependencies = DepList(<<"b", "a">>)
    /\ elems["b"] = NoElem
    /\ elems["a"].dependencies = <<"b", "a">>
    /\ result.dependency_analysis.missing_dependencies = <<"b">>
    /\ result.dependency_analysis.existing_dependencies = <<"a">>

----------------------------------------------------------------------------
(* find_missing_dependencies *)

\* the ids that occur in a stored element's dependencies and have no record
DanglingIds == (UNION {Deps(A) : A \in Stored(elems)}) \ Stored(elems)

\* the stored elements that list d as a dependency
Referencers(d) == {A \in Stored(elems) : d \in Deps(A)}

\* C6 (dangling references are never hidden): in every reachable store the
\* keys of find_missing_dependencies() are exactly the ids that some stored
\* element lists and that have no record; the referencers of each key are
\* exactly the elements that list it; total_missing counts the keys and
\* checked_elements the stored elements.
C6_FindMissingIsExact ==
    LET r == find_missing_dependencies(elems, "") IN
    /\ r.success
    /\ DOMAIN r.missing_dependencies = DanglingIds
    /\ \A d \in DanglingIds :
          {r.missing_dependencies[d][k].referencing_element :
               k \in 1..Len(r.missing_dependencies[d])} = Referencers(d)
    /\ r.total_missing = Cardinality(DanglingIds)
    /\ r.checked_elements = Cardinality(Stored(elems))
    /\ (call.op = "find_missing_dependencies" /\ call.element_id = "") => result = r

\* an unscoped query was answered on a store where a and b both list the
\* ghost id and a also lists b
C6_Witness ==
    /\ call.op = "find_missing_dependencies"
    /\ call.element_id = ""
    /\ Stored(elems) = {"a", "b"}
    /\ Referencers(Ghost) = {"a", "b"}
    /\ "b" \in Deps("a")
    /\ result.total_missing = 1
    /\ result.checked_elements = 2
    /\ Len(result.missing_dependencies[Ghost]) = 2

----------------------------------------------------------------------------
(* edit_dependencies *)

\* the members of s at the positions in keep, in order
AtPositions(s, keep) ==
    [k \in 1..Cardinality(keep) |->
        s[CHOOSE i \in keep : Cardinality({j \in keep : j < i}) = k - 1]]

\* the ids of N that are not in L, each once, in order of first occurrence
FirstNew(N, L) ==
    AtPositions(N, {i \in 1..Len(N) :
                       /\ N[i] \notin Range(L)
                       /\ \A j \in 1..(i - 1) : N[j] # N[i]})

\* C7 (mode 'add'): for an existing element with dependency list L and input
\* N, the resulting list is L followed by the ids of N that are not in L, in
\* order of first occurrence in N, each appended once.
C7_AddModeAppendsUnseen ==
    [][(/\ call'.op = "edit_dependencies"
        /\ call'.operation = "add"
        /\ elems[call'.element_id] # NoElem) =>
          LET L == elems[call'.element_id].dependencies
              N == GivenDependencies(call'.dependencies)
          IN /\ result'.success
             /\ elems'[call'.element_id].dependencies = L \o FirstNew(N, L)
             /\ result'.dependency_changes.new_dependencies = L \o FirstNew(N, L)
             /\ result'.dependency_changes.original_dependencies = L]_vars

\* 'add' of [b, b] to the list [a] was answered with [a, b]
C7_Witness ==
    /\ call.op = "edit_dependencies"
    /\ call.operation = "add"
    /\ call.dependencies = DepList(<<"b", "b">>)
    /\ result.success
    /\ result.dependency_changes.original_dependencies = <<"a">>
    /\ elems[call.element_id].dependencies = <<"a", "b">>

\* C8 (mode 'remove' is a set difference): for an existing element with
\* dependency list L and input N, after success no id of N occurs in the
\* resulting list, which is the subsequence of L made of the ids not in N.
C8_RemoveModeIsSetDifference ==
    [][(/\ call'.op = "edit_dependencies"
        /\ call'.operation = "remove"
        /\ result'.success) =>
          LET L == elems[call'.element_id].dependencies
              N == GivenDependencies(call'.dependencies)
          IN /\ Range(elems'[call'.element_id].dependencies) \cap Range(N) = {}
             /\ elems'[call'.element_id].dependencies = Select(L, Names \ Range(N))]_vars

----------------------------------------------------------------------------
(* update_code_element against edit_dependencies 'replace' *)

\* the two edge lists of every element of a store
Edges(els) ==
    [x \in DOMAIN els |->
        IF els[x] = NoElem THEN NoElem
        ELSE [dependencies |-> els[x].dependencies, dependents |-> els[x].dependents]]

\* C9 (update maintains reciprocity as 'replace' does): for every reachable
\* store, every existing id and every list D, update_code_element(id,
\* dependencies=D) and edit_dependencies(id, D, 'replace') leave the same
\* dependencies and dependents lists on every element.
C9_UpdateEqualsReplace ==
    \A id \in Stored(elems), D \in DepLists :
        Edges(update_code_element(Store, clock, id, "", "", DepList(D), "", "").st.elems)
          = Edges(edit_dependencies(Store, clock, id, DepList(D), "replace").st.elems)

----------------------------------------------------------------------------
(* update_code_element *)

\* the text arguments that update_code_element takes as "not provided"
Blank == {"", " "}

\* C10 (partial update frame): a successful update_code_element(id, ...)
\* overwrites only the fields supplied as non-empty values (code, description,
\* source_file, line_range) or as a non-None dependencies list; an omitted or
\* empty-string text field keeps its value; id, type and created_at never
\* change; without a dependencies argument no dependents list changes.
C10_PartialUpdateFrame ==
    [][(call'.op = "update_code_element" /\ result'.success) =>
          LET old == elems[call'.element_id]
              new == elems'[call'.element_id]
          IN /\ new.id = old.id
             /\ new.type = old.type
             /\ new.created_at = old.created_at
             /\ new.code = IF call'.code \in Blank THEN old.code ELSE "t2"
             /\ new.description =
                    IF call'.description \in Blank THEN old.description
                    ELSE call'.description
             /\ new.source_file =
                    IF call'.source_file \in Blank THEN old.source_file
                    ELSE call'.source_file
             /\ new.line_range =
                    IF call'.line_range \in Blank THEN old.line_range
                    ELSE call'.line_range
             /\ new.dependencies =
                    IF call'.dependencies.kind = "none" THEN old.dependencies
                    ELSE GivenDependencies(call'.dependencies)
             /\ call'.dependencies.kind = "none" =>
                    \A x \in Stored(elems) : elems'[x].dependents = elems[x].dependents
             /\ Stored(elems') = Stored(elems)]_vars

\* an update with a new description, a blank code and no other argument was
\* answered, on an element created at an earlier time, of type module, that
\* depends on itself
C10_Witness ==
    /\ call.op = "update_code_element"
    /\ result.success
    /\ call.description = " t2 "
    /\ call.code = " "
    /\ call.source_file = ""
    /\ call.line_range = ""
    /\ call.dependencies = DepNone
    /\ elems[call.element_id].type = "module"
    /\ elems[call.element_id].code = "t1"
    /\ elems[call.element_id].line_range = "f1"
    /\ elems[call.element_id].dependents = <<"a">>
    /\ elems[call.element_id].created_at < elems[call.element_id].updated_at

----------------------------------------------------------------------------
(* Rejected calls *)

\* the call c, arriving on the records els, fails a precondition check: the
\* message the handler answers with, or "" when it fails none
Rejection(els, c) ==
    CASE /\ c.op \in {"edit_dependencies", "update_code_element", "remove_element"}
         /\ els[c.element_id] = NoElem
           -> "NotFound"
      [] /\ c.op = "find_missing_dependencies"
         /\ c.element_id # ""
         /\ els[c.element_id] = NoElem
           -> "NotFound"
      [] /\ c.op = "edit_dependencies"
         /\ els[c.element_id] # NoElem
         /\ c.operation \notin {"replace", "add", "remove"}
           -> "InvalidOperation"
      [] /\ c.op = "update_code_element"
         /\ els[c.element_id] # NoElem
         /\ c.code \in Blank /\ c.description \in Blank
         /\ c.source_file \in Blank /\ c.line_range \in Blank
         /\ c.dependencies.kind = "none"
           -> "NoFields"
      [] OTHER -> ""

\* C11 (rejected calls change nothing): a call that fails a precondition
\* check - NotFound (edit_dependencies, update_code_element, remove_element,
\* scoped find_missing_dependencies on an id without a record),
\* InvalidOperation (edit_dependencies on an existing id with an operation
\* other than replace/add/remove), no field supplied (update_code_element on an
\* existing id) - returns success = false with that message and leaves every
\* element record and the metadata record as they were.
C11_RejectedCallsChangeNothing ==
    [][(call'.op # "none" /\ Rejection(elems, call') # "") =>
          /\ ~result'.success
          /\ result'.message = Rejection(elems, call')
          /\ elems' = elems
          /\ meta' = meta]_vars

\* an edit with the operation "merge" and a new list was rejected on an
\* element that has dependencies
C11_Witness ==
    /\ call.op = "edit_dependencies"
    /\ call.operation = "merge"
    /\ call.dependencies = DepList(<<"a">>)
    /\ ~result.success
    /\ result.message = "InvalidOperation"
    /\ elems[call.element_id] # NoElem
    /\ elems[call.element_id].dependencies = <<"b">>

----------------------------------------------------------------------------
(* get_knowledge_tree_view: the rendered tree *)

\* text.split("\n"): the lines of a text
RECURSIVE SplitLines(_)
SplitLines(text) ==
    IF \A i \in 1..Len(text) : text[i] # Newline THEN <<text>>
    ELSE LET i == CHOOSE j \in 1..Len(text) :
                      text[j] = Newline /\ \A k \in 1..(j - 1) : text[k] # Newline
         IN <<SubSeq(text, 1, i - 1)>> \o SplitLines(SubSeq(text, i + 1, Len(text)))

\* the lines of a rendered tree that show a node, in order
NodeLines(tree) ==
    LET lines == SelectSeq(SplitLines(tree), LAMBDA line : line # EmptyText)
    IN [k \in 1..Len(lines) |-> lines[k][1]]

\* the lines above line k on its path from the root: for each smaller depth,
\* the last line of that depth before k
Ancestors(nodes, k) ==
    {j \in 1..(k - 1) :
        /\ nodes[j].indent < nodes[k].indent
        /\ \A m \in (j + 1)..k : nodes[m].indent > nodes[j].indent}

\* the view was asked for an existing root
RootedView ==
    /\ call.op = "get_knowledge_tree_view"
    /\ call.root_element_id # ""
    /\ elems[call.root_element_id] # NoElem

\* C12 (tree rendering terminates on cycles): for every store, cycles and
\* self-loops included, every existing root and every max_depth,
\* get_knowledge_tree_view returns a tree, and on no root-to-node path of the
\* rendered tree does the same id appear twice.
C12_NoIdTwiceOnAPath ==
    RootedView =>
        /\ result.success
        /\ LET nodes == NodeLines(result.tree)
           IN /\ call.max_depth >= 0 =>
                    /\ nodes # <<>>
                    /\ nodes[1].id = call.root_element_id
                    /\ nodes[1].indent = 0
              /\ \A k \in 1..Len(nodes) :
                    \A j \in Ancestors(nodes, k) : nodes[j].id # nodes[k].id

\* the tree of a was rendered to depth 2 on the cycle a -> b -> a, in which b
\* also depends on itself: two lines, a and b below it
C12_Witness ==
    /\ RootedView
    /\ call.root_element_id = "a"
    /\ call.max_depth = 2
    /\ elems["a"].dependencies = <<"b">>
    /\ elems["b"] # NoElem
    /\ elems["b"].dependencies = <<"b", "a">>
    /\ Len(NodeLines(result.tree)) = 2
    /\ NodeLines(result.tree)[2].id = "b"

\* A branch of the tree below a root is the list of the positions taken in the
\* successive dependencies lists.  The ids it passes, the root first; <<>> when
\* a position is past the end of a list or the branch continues below an id
\* that has no record.
RECURSIVE BranchIds(_, _, _)
BranchIds(els, from, branch) ==
    IF branch = <<>> THEN <<from>>
    ELSE IF els[from] = NoElem \/ Head(branch) > Len(els[from].dependencies) THEN <<>>
    ELSE LET below == BranchIds(els, els[from].dependencies[Head(branch)], Tail(branch))
         IN IF below = <<>> THEN <<>> ELSE <<from>> \o below

\* the branches of the reference traversal: no deeper than max_depth, and no
\* id twice on a branch
Branches(els, root, max_depth) ==
    LET width == MaxOf([i \in 1..Cardinality(Stored(els)) |->
                           Len(get_all_elements(els)[i].dependencies)])
    IN IF max_depth < 0 THEN {}
       ELSE {branch \in SeqsUpTo(1..width, max_depth) :
                LET ids == BranchIds(els, root, branch)
                IN /\ ids # <<>>
                   /\ \A i, j \in 1..Len(ids) : i # j => ids[i] # ids[j]}

\* depth-first pre-order with the dependencies in list order: a branch comes
\* before the branches that extend it, and before those that take a later
\* position where they first differ from it
Before(p, q) ==
    \/ Len(p) < Len(q) /\ SubSeq(q, 1, Len(p)) = p
    \/ \E i \in 1..Len(p) :
          /\ i <= Len(q)
          /\ SubSeq(p, 1, i - 1) = SubSeq(q, 1, i - 1)
          /\ p[i] < q[i]

\* the line of a branch: the id it ends on, at the depth of the branch
BranchLine(els, root, branch) ==
    LET ids == BranchIds(els, root, branch)
        id  == ids[Len(ids)]
    IN IF els[id] = NoElem
       THEN [indent |-> Len(branch), prefix |-> TRUE, id |-> id, label |-> "MISSING",
             description |-> ""]
       ELSE [indent |-> Len(branch), prefix |-> Len(branch) > 0, id |-> id,
             label |-> els[id].type, description |-> els[id].description]

\* the lines of the reference traversal from root
ReferenceTree(els, root, max_depth) ==
    LET branches == Branches(els, root, max_depth)
    IN [k \in 1..Cardinality(branches) |->
           BranchLine(els, root,
               CHOOSE p \in branches :
                   Cardinality({q \in branches : Before(q, p)}) = k - 1)]

\* C13 (per-branch cycle guard): for an existing root and a max_depth, the
\* rendered lines are those of the depth-first pre-order traversal that follows
\* the dependencies (never the dependents) in list order, in which a child is
\* left out only when its id is already on the path from the root to it or its
\* depth exceeds max_depth, and an id without a record gives one [MISSING]
\* line without children; an element rendered under one branch is rendered
\* again under a sibling branch that depends on it.
C13_TreeIsReferenceTraversal ==
    RootedView =>
        /\ result.success
        /\ NodeLines(result.tree) =
               ReferenceTree(elems, call.root_element_id, call.max_depth)
        /\ Len(SplitLines(result.tree)) = Max(1, Len(NodeLines(result.tree)))

\* the tree of a was rendered to depth 2 where a depends on b and c, b on c,
\* and c on a: c is shown below b and again below a, a only at the root
C13_Witness ==
    /\ RootedView
    /\ call.root_element_id = "a"
    /\ call.max_depth = 2
    /\ elems["a"].dependencies = <<"b", "c">>
    /\ elems["b"] # NoElem
    /\ elems["b"].dependencies = <<"c">>
    /\ elems["c"] # NoElem
    /\ elems["c"].dependencies = <<"a">>
    /\ Len(NodeLines(result.tree)) = 4
    /\ NodeLines(result.tree)[3].id = "c"
    /\ NodeLines(result.tree)[3].indent = 2
    /\ NodeLines(result.tree)[4].id = "c"
    /\ NodeLines(result.tree)[4].indent = 1

\* C14 (absent root): get_knowledge_tree_view with a root_element_id that has
\* no record fails with NotFound (success = false), for every store, the empty
\* store included.
C14_AbsentRootIsNotFound ==
    (/\ call.op = "get_knowledge_tree_view"
     /\ call.root_element_id # ""
     /\ elems[call.root_element_id] = NoElem) =>
        /\ ~result.success
        /\ result.message = "NotFound"

\* the lines of a text cut into blocks, each block ending with an empty line
\* that is not part of it; lines after the last empty line are a block too
RECURSIVE Blocks(_)
Blocks(lines) ==
    IF lines = <<>> THEN <<>>
    ELSE IF \A i \in 1..Len(lines) : lines[i] # EmptyText THEN <<lines>>
    ELSE LET i == CHOOSE j \in 1..Len(lines) :
                      lines[j] = EmptyText /\ \A k \in 1..(j - 1) : lines[k] # EmptyText
         IN <<SubSeq(lines, 1, i - 1)>> \o Blocks(SubSeq(lines, i + 1, Len(lines)))

\* the roots of a view without root_element_id: the elements without
\* dependents, or every element when there is none
TopLevel(els) ==
    LET no_dependent == {x \in Stored(els) : els[x].dependents = <<>>}
    IN IF no_dependent = {} THEN Stored(els) ELSE no_dependent

\* C15 (root selection without root_element_id): on a store that has elements,
\* the view renders exactly one tree per element whose dependents list is
\* empty, or one tree per stored element when no element has an empty
\* dependents list; each rendered tree is followed by an empty line.
C15_OneTreePerTopLevelElement ==
    (/\ call.op = "get_knowledge_tree_view"
     /\ call.root_element_id = ""
     /\ Stored(elems) # {}) =>
        /\ result.success
        /\ LET lines  == SplitLines(result.tree)
               blocks == Blocks(lines)
               trees  == [k \in 1..Len(blocks) |->
                             [i \in 1..Len(blocks[k]) |-> blocks[k][i][1]]]
           IN /\ lines[Len(lines)] = EmptyText
              /\ Len(blocks) = Cardinality(TopLevel(elems))
              /\ {trees[k] : k \in 1..Len(trees)} =
                     {ReferenceTree(elems, root, call.max_depth) : root \in TopLevel(elems)}

\* a view without root was rendered to depth 1 on the cycle a -> b -> c -> a
\* where a, b and c also depend on themselves, so that each has a dependent:
\* three trees of two lines
C15_Witness ==
    /\ call.op = "get_knowledge_tree_view"
    /\ call.root_element_id = ""
    /\ call.max_depth = 1
    /\ Stored(elems) = {"a", "b", "c"}
    /\ \A x \in Stored(elems) : elems[x].dependents # <<>>
    /\ elems["a"].dependencies = <<"b", "a">>
    /\ elems["b"].dependencies = <<"c", "b">>
    /\ elems["c"].dependencies = <<"a", "c">>
    /\ Len(SplitLines(result.tree)) = 9

\* a view without root was rendered where only a has no dependent: one tree
C15_WitnessTopLevel ==
    /\ call.op = "get_knowledge_tree_view"
    /\ call.root_element_id = ""
    /\ call.max_depth = 2
    /\ Stored(elems) = {"a", "b", "c"}
    /\ TopLevel(elems) = {"a"}
    /\ elems["a"].dependencies = <<"b", "c">>
    /\ Len(Blocks(SplitLines(result.tree))) = 1

----------------------------------------------------------------------------
(* get_knowledge_tree_stats *)

\* |x|
Abs(x) == IF x >= 0 THEN x ELSE -x

\* r is p / q rounded to the nearest integer (q > 0)
IsRounded(r, p, q) == 2 * Abs(p - r * q) <= q

\* the counts of the health score, from the records
OrphanCount(els) ==
    Cardinality({x \in Stored(els) : els[x].dependencies = <<>> /\ els[x].dependents = <<>>})
MissingCount(els) ==
    Cardinality((UNION {Range(els[x].dependencies) : x \in Stored(els)}) \ Stored(els))
TotalDependencyEdges(els) ==
    Sum([i \in 1..Cardinality(Stored(els)) |->
            Len(els[SeqOfSet(Stored(els))[i]].dependencies)])

\* C16 (health score formula): on every store that has elements,
\* get_knowledge_tree_stats returns overall_health_score =
\* round(max(0, 100 - (orphanCount / totalElements) * 20
\*                  - (missingCount / max(totalDependencyEdges, 1)) * 30), 1)
\* and avg_dependencies_per_element = round(totalDependencyEdges /
\* totalElements, 2), missingCount being the number of distinct missing ids and
\* totalDependencyEdges the sum of the lengths of the dependencies lists; the
\* result depends on the records only.
C16_HealthScoreFormula ==
    (call.op = "get_knowledge_tree_stats" /\ Stored(elems) # {}) =>
        LET total   == Cardinality(Stored(elems))
            edges   == Max(TotalDependencyEdges(elems), 1)
            \* 100 - (orphans / total) * 20 - (missing / edges) * 30, times total * edges
            scaled  == 100 * total * edges
                       - 20 * OrphanCount(elems) * edges
                       - 30 * MissingCount(elems) * total
            score   == result.stats.health_metrics.overall_health_score
            average == result.stats.dependency_stats.avg_dependencies_per_element
        IN /\ result.success
           /\ score >= 0
           /\ IsRounded(score, 10 * Max(0, scaled), total * edges)
           /\ IsRounded(average, 100 * TotalDependencyEdges(elems), total)
           /\ result.stats.health_metrics.missing_dependencies = MissingCount(elems)
           /\ result.stats.health_metrics.orphaned_elements = OrphanCount(elems)
           /\ result.stats.dependency_stats.total_dependencies = TotalDependencyEdges(elems)
           /\ result = get_knowledge_tree_stats(elems)

\* the statistics were computed on two elements with four dependencies, one
\* of them on an id without a record: 100 - 0 - (1/4) * 30 = 92.5 and 4/2 = 2.00
C16_Witness ==
    /\ call.op = "get_knowledge_tree_stats"
    /\ Stored(elems) = {"a", "b"}
    /\ elems["a"].dependencies = <<"c", "a">>
    /\ elems["b"].dependencies = <<"a", "b">>
    /\ result.stats.health_metrics.overall_health_score = 925
    /\ result.stats.dependency_stats.avg_dependencies_per_element = 200

\* the statistics were computed on three elements, one of them an orphan, with
\* two dependencies: 100 - (1/3) * 20 = 93.3 and 2/3 = 0.67
C16_WitnessRounding ==
    /\ call.op = "get_knowledge_tree_stats"
    /\ Stored(elems) = {"a", "b", "c"}
    /\ OrphanCount(elems) = 1
    /\ TotalDependencyEdges(elems) = 2
    /\ result.stats.health_metrics.overall_health_score = 933
    /\ result.stats.dependency_stats.avg_dependencies_per_element = 67

----------------------------------------------------------------------------
(* Metadata and timestamps *)

\* the handlers that write records
Mutating == {"add_code_element", "edit_dependencies", "update_code_element", "remove_element"}

\* C17 (metadata is derived): after every successful mutating operation (add,
\* edit dependencies, update, remove), metadata.total_elements is the number of
\* element records in the store, and metadata.created_at still holds the value
\* written when the directory was initialized.
C17_MetadataIsDerived ==
    [][(call'.op \in Mutating /\ result'.success) =>
          /\ meta'.total_elements = Cardinality(Stored(elems'))
          /\ meta'.created_at = meta.created_at
          /\ meta'.created_at <= meta'.last_updated
          /\ meta'.last_updated = clock]_vars

\* at a later time, the dependencies of b were edited while a and b are
\* stored: the metadata counts two elements, was created at the first instant
\* and updated now
C17_Witness ==
    /\ call.op = "edit_dependencies"
    /\ result.success
    /\ Stored(elems) = {"a", "b"}
    /\ clock = MaxClock
    /\ meta = [total_elements |-> 2, created_at |-> 1, last_updated |-> clock]

\* C18 (element timestamps): created_at is set at the first save of a record
\* and never changes while the record exists, whatever edit, update or
\* dependents-maintenance write touches it; updated_at is set to the current
\* clock value at every save of the record; hence created_at <= updated_at in
\* every reachable state.
C18_ElementTimestamps ==
    [][\A x \in DOMAIN elems :
          /\ (elems[x] # NoElem /\ elems'[x] # NoElem) =>
                 elems'[x].created_at = elems[x].created_at
          /\ (elems[x] = NoElem /\ elems'[x] # NoElem) =>
                 elems'[x].created_at = clock
          /\ (elems'[x] # NoElem /\ elems'[x] # elems[x]) =>
                 elems'[x].updated_at = clock
          /\ elems'[x] # NoElem =>
                 /\ elems'[x].created_at # NoTime
                 /\ elems'[x].created_at <= elems'[x].updated_at
                 /\ elems'[x].updated_at <= clock']_vars

\* at a later time, b was added with a dependency on a: the record of a, saved
\* again for its dependents list, keeps its created_at and has a new updated_at
C18_Witness ==
    /\ call.op = "add_code_element"
    /\ call.element_id = "b"
    /\ result.success
    /\ elems["a"] # NoElem
    /\ elems["a"].dependents = <<"b">>
    /\ elems["a"].created_at = 1
    /\ elems["a"].updated_at = MaxClock
    /\ elems["b"].created_at = MaxClock

----------------------------------------------------------------------------
(* Failing file operations *)

\* the nine tools
Tools ==
    Mutating \cup {"get_element", "find_missing_dependencies", "get_knowledge_tree_view",
                   "list_all_elements", "get_knowledge_tree_stats"}

\* a file operation raised during the call that is being answered
Raised == "raised" \in DOMAIN call

\* C19 (crash-proof tool surface): if a storage read or write fails inside a
\* tool operation (at any step of add, edit dependencies, update, remove, find
\* missing, tree view, list or stats), the operation still ends by returning a
\* structured result with success = false and a message; no failure escapes
\* the operation.
C19_FailuresAreReturned ==
    Raised =>
        /\ call.op \in Tools
        /\ DOMAIN result = {"success", "message"}
        /\ result.success = FALSE
        /\ result.message = "Error"

\* an add was answered with the error result after its element file was
\* written and before the metadata file was: the record is there, the metadata
\* still counts no element
C19_Witness ==
    /\ Raised
    /\ call.op = "add_code_element"
    /\ result.success = FALSE
    /\ elems[call.element_id] # NoElem
    /\ meta.total_elements = 0

\* C20 (partial-failure reporting in remove_element): if persisting one
\* affected element fails in the middle of the reference-scrubbing scan (the
\* element to remove is still there, another record was already rewritten),
\* the returned result reports which element updates succeeded, rather than
\* only a generic failure, while the store may be left partially updated.
C20_RemoveReportsPartialFailure ==
    [][(/\ "raised" \in DOMAIN call'
        /\ call'.op = "remove_element"
        /\ elems'[call'.element_id] # NoElem
        /\ elems' # elems) =>
          /\ "cleaned_references" \in DOMAIN result'
          /\ {result'.cleaned_references[i][1] : i \in 1..Len(result'.cleaned_references)}
                 = {x \in DOMAIN elems : elems'[x] # elems[x]}]_vars

----------------------------------------------------------------------------
(* Overlapping calls *)

\* reciprocity of the records els: for stored A and B, B is in A.dependencies
\* exactly when A is in B.dependents
Reciprocal(els) ==
    \A A \in Stored(els), B \in Stored(els) :
        (B \in Range(els[A].dependencies)) <=> (A \in Range(els[B].dependents))

\* no handler is between two of its file operations
Quiescent == \A p \in Procs : ~Running(call.frames[p])

\* C21 (non-atomicity under overlap): when the file operations of two calls
\* interleave (two add_code_element calls for different new ids that list the
\* same existing dependency b, or an add overlapping a remove), a state that
\* violates reciprocity is reachable, also with both calls returned with
\* success (the witnesses); as long as every call began after the one before it
\* had returned, the records are reciprocal whenever no handler is running.
C21_SequentialCallsKeepReciprocity ==
    (~call.overlapped /\ Quiescent) => Reciprocal(elems)

\* a and c were added at the same time, both with the dependency b; both calls
\* returned success and reported b as existing, and b.dependents holds only
\* one of them
C21_Witness ==
    /\ call.overlapped
    /\ \A p \in Procs :
          /\ call.frames[p].pc = "returned"
          /\ call.frames[p].op = "add_code_element"
          /\ result[p].success
          /\ result[p].dependency_analysis.existing_dependencies = <<"b">>
    /\ elems["a"] # NoElem /\ elems["a"].dependencies = <<"b">>
    /\ elems["c"] # NoElem /\ elems["c"].dependencies = <<"b">>
    /\ elems["b"] # NoElem /\ Len(elems["b"].dependents) = 1
    /\ ~Reciprocal(elems)

\* a was added with the dependency b while b was removed; both calls returned
\* success, and b has a record again, written by the add, that a does not list
C21_WitnessAddRemove ==
    /\ call.overlapped
    /\ \E p, q \in Procs :
          /\ call.frames[p].pc = "returned"
          /\ call.frames[p].op = "add_code_element"
          /\ call.frames[p].element_id = "a"
          /\ call.frames[q].pc = "returned"
          /\ call.frames[q].op = "remove_element"
          /\ call.frames[q].element_id = "b"
          /\ result[p].success /\ result[q].success
    /\ elems["a"] # NoElem /\ elems["a"].dependencies = <<>>
    /\ elems["b"] # NoElem /\ elems["b"].dependents = <<"a">>
    /\ ~Reciprocal(elems)

----------------------------------------------------------------------------
(* get_knowledge_tree_view: the depth bound *)

\* a tree was rendered: the store has elements and the root, if given, exists
TreeRendered ==
    /\ call.op = "get_knowledge_tree_view"
    /\ Stored(elems) # {}
    /\ call.root_element_id # "" => elems[call.root_element_id] # NoElem

\* the roots of the rendered trees
RenderedRoots ==
    IF call.root_element_id # "" THEN {call.root_element_id} ELSE TopLevel(elems)

\* the nodes at depth d that show id x, below the rendered roots: the paths of
\* d dependency steps from a root to x that pass no id twice
PathsTo(x, d) ==
    {rb \in UNION {{<<root, branch>> : branch \in Branches(elems, root, d)} :
                      root \in RenderedRoots} :
        /\ Len(rb[2]) = d
        /\ LET ids == BranchIds(elems, rb[1], rb[2]) IN ids[Len(ids)] = x}

\* C22 (depth bound of the tree view): with the root at depth 0, every
\* rendered line is at a depth d with 0 <= d <= max_depth, and at every such
\* depth, max_depth included, each node that the cycle guard does not cut is
\* rendered: max_depth = 0 gives the root line alone, max_depth = 3 (the
\* default) up to four levels.
C22_DepthBound ==
    TreeRendered =>
        /\ result.success
        /\ LET nodes == NodeLines(result.tree)
           IN /\ \A k \in 1..Len(nodes) :
                    0 <= nodes[k].indent /\ nodes[k].indent <= call.max_depth
              /\ \A d \in 0..call.max_depth, x \in DOMAIN elems :
                    Cardinality({k \in 1..Len(nodes) :
                                    nodes[k].indent = d /\ nodes[k].id = x})
                      = Cardinality(PathsTo(x, d))
              /\ (call.max_depth = 0 /\ call.root_element_id # "") =>
                    /\ Len(nodes) = 1
                    /\ nodes[1].id = call.root_element_id

\* the tree of a was rendered to depth 3 on the chain a -> b -> c -> g, g
\* having no record: four lines, at the depths 0, 1, 2 and 3
C22_Witness ==
    /\ TreeRendered
    /\ call.root_element_id = "a"
    /\ call.max_depth = DefaultMaxDepth
    /\ elems["a"].dependencies = <<"b">>
    /\ elems["b"] # NoElem /\ elems["b"].dependencies = <<"c">>
    /\ elems["c"] # NoElem /\ elems["c"].dependencies = <<Ghost>>
    /\ Len(NodeLines(result.tree)) = 4
    /\ \A k \in 1..4 : NodeLines(result.tree)[k].indent = k - 1
    /\ NodeLines(result.tree)[4].label = "MISSING"

\* the tree of a was rendered to depth 0 where a has a dependency: one line
C22_WitnessRootOnly ==
    /\ TreeRendered
    /\ call.root_element_id = "a"
    /\ call.max_depth = 0
    /\ elems["a"].dependencies = <<"b">>
    /\ elems["b"] # NoElem
    /\ Len(NodeLines(result.tree)) = 1

----------------------------------------------------------------------------
(* get_knowledge_tree_stats: the counters *)

\* the types that stored elements have
StoredTypes == {elems[x].type : x \in Stored(elems)}

\* the sum of the values of the dict d (a function on a finite set)
RECURSIVE SumOfDict(_)
SumOfDict(d) ==
    IF DOMAIN d = {} THEN 0
    ELSE LET k == CHOOSE j \in DOMAIN d : TRUE
         IN d[k] + SumOfDict([j \in DOMAIN d \ {k} |-> d[j]])

\* the statistics were asked for on a store that has elements
StatsOnElements == call.op = "get_knowledge_tree_stats" /\ Stored(elems) # {}

\* C23 (statistics counters): on every store that has elements,
\* get_knowledge_tree_stats reports total_elements = the number of records,
\* per-type counts that sum to total_elements, the elements without
\* dependencies and those without dependents counted separately,
\* orphaned_elements = the number of elements whose dependencies and dependents
\* are both empty, max_dependencies = the largest length of a dependencies
\* list, and missing_dependencies = the number of distinct dependency ids
\* without a record, which is total_missing of find_missing_dependencies()
\* on the same store.
C23_StatisticsCounters ==
    StatsOnElements =>
        LET stats == result.stats
            deps  == stats.dependency_stats
        IN /\ result.success
           /\ stats.total_elements = Cardinality(Stored(elems))
           /\ DOMAIN stats.element_types = StoredTypes
           /\ \A t \in StoredTypes :
                 stats.element_types[t] =
                     Cardinality({x \in Stored(elems) : elems[x].type = t})
           /\ SumOfDict(stats.element_types) = stats.total_elements
           /\ deps.elements_with_no_dependencies =
                  Cardinality({x \in Stored(elems) : elems[x].dependencies = <<>>})
           /\ deps.elements_with_no_dependents =
                  Cardinality({x \in Stored(elems) : elems[x].dependents = <<>>})
           /\ stats.health_metrics.orphaned_elements =
                  Cardinality({x \in Stored(elems) :
                                  elems[x].dependencies = <<>> /\ elems[x].dependents = <<>>})
           /\ \E x \in Stored(elems) : Len(elems[x].dependencies) = deps.max_dependencies
           /\ \A x \in Stored(elems) : Len(elems[x].dependencies) <= deps.max_dependencies
           /\ stats.health_metrics.missing_dependencies = Cardinality(DanglingIds)
           /\ stats.health_metrics.missing_dependencies =
                  find_missing_dependencies(elems, "").total_missing
           /\ stats.missing_dependency_list = DanglingIds

\* the statistics were computed where a, a module, depends on the ghost id and
\* on b, and b, a function, has no dependency: one element without
\* dependencies (b), one without dependents (a), no orphan, one missing id
C23_Witness ==
    /\ StatsOnElements
    /\ Stored(elems) = {"a", "b"}
    /\ elems["a"].type = "module" /\ elems["b"].type = "function"
    /\ elems["a"].dependencies = <<Ghost, "b">>
    /\ elems["b"].dependencies = <<>> /\ elems["b"].dependents = <<"a">>
    /\ result.stats.dependency_stats.elements_with_no_dependencies = 1
    /\ result.stats.dependency_stats.elements_with_no_dependents = 1
    /\ result.stats.health_metrics.orphaned_elements = 0
    /\ result.stats.dependency_stats.max_dependencies = 2
    /\ result.stats.health_metrics.missing_dependencies = 1

----------------------------------------------------------------------------
(* The statistics of the view against get_knowledge_tree_stats *)

\* C24 (the two reports agree): the statistics that get_knowledge_tree_view
\* returns are those of get_knowledge_tree_stats on the same store for every
\* counter they share - total_elements, the per-type histogram, the average and
\* the maximum dependency count, the number of orphaned elements - whatever
\* root_element_id and max_depth: they are computed over the whole store, not
\* over the rendered subtree.
C24_ViewStatisticsAgreeWithStats ==
    (call.op = "get_knowledge_tree_view" /\ result.success) =>
        LET view  == result.statistics
            stats == get_knowledge_tree_stats(elems).stats
        IN /\ view.total_elements = stats.total_elements
           /\ view.total_elements = Cardinality(Stored(elems))
           /\ Stored(elems) # {} =>
                 /\ view.element_types = stats.element_types
                 /\ view.avg_dependencies = stats.dependency_stats.avg_dependencies_per_element
                 /\ view.max_dependencies = stats.dependency_stats.max_dependencies
                 /\ view.orphaned_elements = stats.health_metrics.orphaned_elements

\* the view of b alone (max_depth 0) was rendered where a, a module, depends
\* on the ghost id and on b: one line, and the statistics of the two elements
C24_Witness ==
    /\ call.op = "get_knowledge_tree_view"
    /\ call.root_element_id = "b"
    /\ call.max_depth = 0
    /\ result.success
    /\ Len(NodeLines(result.tree)) = 1
    /\ Stored(elems) = {"a", "b"}
    /\ elems["a"].type = "module" /\ elems["b"].type = "function"
    /\ elems["a"].dependencies = <<Ghost, "b">>
    /\ result.statistics.total_elements = 2
    /\ result.statistics.avg_dependencies = 100
    /\ result.statistics.max_dependencies = 2
    /\ result.statistics.orphaned_elements = 0
    /\ DOMAIN result.statistics.element_types = {"function", "module"}

----------------------------------------------------------------------------
(* get_knowledge_tree_stats: circular_dependencies *)

\* the stored elements that are on a cycle of dependencies (a self-loop is a
\* cycle): x reaches x in one or more steps
RECURSIVE ReachedIn(_, _)
ReachedIn(S, n) ==
    LET next == UNION {Deps(x) : x \in S \cap Stored(elems)}
    IN IF n = 0 THEN {} ELSE next \cup ReachedIn(next, n - 1)
OnCycle == {x \in Stored(elems) : x \in ReachedIn({x}, Cardinality(Stored(elems)))}

\* C25 (circular_dependencies is never computed): on every store that has
\* elements, those whose dependency graph has cycles (a -> b -> a) or
\* self-loops included, get_knowledge_tree_stats reports
\* circular_dependencies = 0.
C25_CircularDependenciesIsZero ==
    StatsOnElements =>
        /\ result.success
        /\ "circular_dependencies" \in DOMAIN result.stats.health_metrics
        /\ result.stats.health_metrics.circular_dependencies = 0

\* the statistics were computed on the cycle a -> b -> a, where b also
\* depends on itself
C25_Witness ==
    /\ StatsOnElements
    /\ Stored(elems) = {"a", "b"}
    /\ elems["a"].dependencies = <<"b">>
    /\ elems["b"].dependencies = <<"a", "b">>
    /\ elems["a"].dependents = <<"b">>
    /\ OnCycle = {"a", "b"}
    /\ result.stats.health_metrics.circular_dependencies = 0

----------------------------------------------------------------------------
(* The tools that only read *)

\* the five tools that only read
ReadOnly == Tools \ Mutating

\* the ids list_all_elements returned, in order
ListedIds(r) == [i \in 1..Len(r.elements) |-> r.elements[i].id]

\* C26 (read-only operations have no effect on the store): get_element,
\* list_all_elements, find_missing_dependencies, get_knowledge_tree_view and
\* get_knowledge_tree_stats leave every element record (updated_at included)
\* and the metadata record unchanged; the same call repeated on the unchanged
\* store returns the same result; what a read returns is what the records hold
\* at that time, so a read issued right after a successful mutating call
\* observes that call's effects.
C26_ReadsChangeNothing ==
    [][/\ call'.op \in ReadOnly =>
             /\ elems' = elems
             /\ meta' = meta
             /\ LET again == try_body([elems |-> elems', meta |-> meta', points |-> {}],
                                      clock', call')
                IN /\ again.ret = result'
                   /\ again.st.elems = elems'
                   /\ again.st.meta = meta'
             /\ call'.op = "get_element" =>
                   IF elems[call'.element_id] = NoElem THEN ~result'.success
                   ELSE result'.success /\ result'.element = elems[call'.element_id]
             /\ call'.op = "list_all_elements" =>
                   /\ result'.total = Cardinality(Stored(elems))
                   /\ Range(ListedIds(result')) = Stored(elems)
                   /\ \A i \in 1..Len(result'.elements) :
                         LET e == result'.elements[i]
                         IN /\ e.dependencies_count = Len(elems[e.id].dependencies)
                            /\ e.dependents_count = Len(elems[e.id].dependents)
                            /\ e.created_at = elems[e.id].created_at
             /\ call'.op = "get_knowledge_tree_stats" =>
                   result'.stats.total_elements = Cardinality(Stored(elems))
             /\ (call'.op = "get_knowledge_tree_view" /\ result'.success) =>
                   result'.statistics.total_elements = Cardinality(Stored(elems))
             /\ (call'.op = "find_missing_dependencies" /\ call'.element_id = "") =>
                   DOMAIN result'.missing_dependencies
                       = (UNION {Range(elems[x].dependencies) : x \in Stored(elems)})
                             \ Stored(elems)
       /\ (call'.op \in Mutating /\ result'.success) =>
             LET id     == call'.element_id
                 found  == get_element(elems', id)
                 listed == list_all_elements(elems')
             IN /\ call'.op = "remove_element" =>
                       /\ ~found.success
                       /\ listed.total = Cardinality(Stored(elems)) - 1
                       /\ id \notin Range(ListedIds(listed))
                /\ call'.op # "remove_element" =>
                       /\ found.success
                       /\ found.element.updated_at = clock
                       /\ id \in Range(ListedIds(listed))
                /\ call'.op = "add_code_element" =>
                       /\ found.element.dependencies = GivenDependencies(call'.dependencies)
                       /\ found.element.created_at = clock
                       /\ listed.total = Cardinality(Stored(elems)) + 1
                /\ call'.op = "edit_dependencies" =>
                       found.element.dependencies = result'.dependency_changes.new_dependencies
                /\ (call'.op = "update_code_element" /\ call'.dependencies.kind # "none") =>
                       found.element.dependencies = GivenDependencies(call'.dependencies)]_vars

\* get_element(a) was answered at a later time than the last write of a: the
\* record it returned, and the one in the store, still carry the earlier
\* updated_at, and the metadata its earlier last_updated
C26_Witness ==
    /\ call.op = "get_element"
    /\ call.element_id = "a"
    /\ result.success
    /\ result.element = elems["a"]
    /\ elems["a"].dependencies = <<"b">>
    /\ elems["a"].updated_at = 1
    /\ meta.last_updated = 1
    /\ clock = MaxClock

----------------------------------------------------------------------------
(* The dependents lists *)

\* the list s holds no value twice
NoRepeat(s) == \A i, j \in 1..Len(s) : i # j => s[i] # s[j]

\* C27 (idempotent append): in every store reachable by sequential tool calls,
\* no element's dependents list contains the same id twice, also when a client
\* passes a dependency list that repeats an id or applies the same edit or
\* update again.
C27_DependentsHoldNoIdTwice ==
    \A x \in Stored(elems) : NoRepeat(elems[x].dependents)

\* the 'replace' of a's dependencies by [b, b] was applied to a that already
\* had the dependencies [b, b]: b.dependents is [a]
C27_Witness ==
    /\ call.op = "edit_dependencies"
    /\ call.element_id = "a"
    /\ call.operation = "replace"
    /\ call.dependencies = DepList(<<"b", "b">>)
    /\ result.success
    /\ result.dependency_changes.original_dependencies = <<"b", "b">>
    /\ elems["a"].dependencies = <<"b", "b">>
    /\ elems["b"] # NoElem
    /\ elems["b"].dependents = <<"a">>

\* C28 (no dangling dependents): in every store reachable by sequential tool
\* calls, every id in an element's dependents list is the id of an element
\* that has a record, also after remove_element and after a removed id was
\* added again.
C28_DependentsHaveRecords ==
    \A x \in Stored(elems) :
        \A i \in 1..Len(elems[x].dependents) :
            load_element(elems, elems[x].dependents[i]) # NoElem

----------------------------------------------------------------------------
(* The range of the health score *)

\* C29 (health score range): on every store that has elements the health
\* score, before rounding, is at least 50 and at most 100:
\*   50 * N * D <= 100 * N * D - 20 * orphans * D - 30 * missing * N <= 100 * N * D
\* with N the number of elements and D = max(total dependency entries, 1),
\* because orphans <= N and missing <= D; the floor max(0, ...) is never the
\* value that is returned, and the returned score (in tenths) is in 500..1000.
C29_HealthScoreRange ==
    (call.op = "get_knowledge_tree_stats" /\ Stored(elems) # {}) =>
        LET N       == Cardinality(Stored(elems))
            D       == Max(TotalDependencyEdges(elems), 1)
            orphans == result.stats.health_metrics.orphaned_elements
            missing == result.stats.health_metrics.missing_dependencies
            scaled  == 100 * N * D - 20 * orphans * D - 30 * missing * N
            score   == result.stats.health_metrics.overall_health_score
        IN /\ result.stats.total_elements = N
           /\ result.stats.dependency_stats.total_dependencies = TotalDependencyEdges(elems)
           /\ orphans <= N
           /\ missing <= D
           /\ 50 * N * D <= scaled
           /\ scaled <= 100 * N * D
           /\ scaled > 0
           /\ score \in 500..1000

\* the statistics were computed on a store of two elements, one an orphan, the
\* other with one dependency, on an id without a record: 100 - 10 - 30 = 60.0
C29_Witness ==
    /\ call.op = "get_knowledge_tree_stats"
    /\ Cardinality(Stored(elems)) = 2
    /\ result.stats.health_metrics.orphaned_elements = 1
    /\ result.stats.health_metrics.missing_dependencies = 1
    /\ result.stats.dependency_stats.total_dependencies = 1
    /\ result.stats.health_metrics.overall_health_score = 600

\* the statistics were computed on a store without orphans and without missing
\* dependencies: 100.0
C29_WitnessHealthy ==
    /\ call.op = "get_knowledge_tree_stats"
    /\ Stored(elems) # {}
    /\ result.stats.health_metrics.orphaned_elements = 0
    /\ result.stats.health_metrics.missing_dependencies = 0
    /\ result.stats.health_metrics.overall_health_score = 1000

====
